---- MODULE Spec2Model ----
(***************************************************************************)
(* MLB scoreboard: the Stats API client with its response cache            *)
(* (packages/mlb_api/statsapi.py), the screens it feeds                    *)
(* (packages/ui/screens.py) and the application loop (code.py).            *)
(*                                                                         *)
(* Time is the value of time.monotonic() in whole seconds.  A JSON value   *)
(* is a record [k |-> kind, v |-> value] with kind one of "dict", "list",  *)
(* "str", "num", "bool", "null"; a dict's v is a function from key names   *)
(* to JSON values and a list's v is a sequence of JSON values.             *)
(***************************************************************************)
EXTENDS Integers, Sequences, FiniteSets, TLC

VARIABLES
    pc,                 \* position of the single thread of control in run()
    clock,              \* time.monotonic()
    now,                \* the loop's sample of the clock (code.py:436), 0 once the body has read it last
    last_data_refresh,  \* MLBScoreboard.last_data_refresh
    last_screen_change, \* MLBScoreboard.last_screen_change
    current_screen,     \* MLBScoreboard.current_screen (0-based index)
    screens,            \* MLBScoreboard.screens, a sequence of screen names
    is_initialized,     \* MLBScoreboard.is_initialized
    has_data,           \* MLBScoreboard.has_data
    games,              \* MLBScoreboard.games
    favorite_game,      \* MLBScoreboard.favorite_game
    standings,          \* MLBScoreboard.standings
    schedule,           \* MLBScoreboard.schedule
    status_pixel,       \* colour last written to the status pixel
    shown,              \* screen last handed to Display.show
    game_view,          \* labels of the GameScreen
    standings_view,     \* labels of the StandingsScreen
    schedule_view,      \* labels of the ScheduleScreen
    error_view,         \* title of the ErrorScreen
    cache,              \* StatsAPIClient.cache
    cache_expiry,       \* StatsAPIClient.cache_expiry
    today,              \* the date the local clock reports
    wifi_ok,            \* result of the last ensure_wifi_connection()
    last_op,            \* record of the most recent client call or refresh_data call
    rot_log,            \* screens shown by the most recent rotations
    out_log,            \* what the network last delivered per url, and the last get_games result per date
    faults,             \* exceptions raised in the loop body so far
    serial_lines,       \* lines of serial input read so far
    wifi                \* frame of the ensure_wifi_connection() call in progress or last returned

vars == <<pc, clock, now, last_data_refresh, last_screen_change,
          current_screen, screens, is_initialized, has_data, games,
          favorite_game, standings, schedule, status_pixel, shown,
          game_view, standings_view, schedule_view, error_view, cache,
          cache_expiry, today, wifi_ok, last_op, rot_log, out_log, faults,
          serial_lines, wifi>>

----------------------------------------------------------------------------
(* Bounds of the model *)

MaxClock == 60
MaxClientClock == 320
MaxFaults == 1
MaxSerial == 1

\* seconds from power-up to local midnight
SecondsToMidnight == 30

\* game entries in one schedule payload, the largest limit of
\* get_team_schedule, and team rows in one division
MaxGames == 3
MaxLimit == 3
MaxRows == 3
\* largest attempt budget a caller passes to ensure_wifi_connection
MaxAttempts == 3

\* seconds one pass of the loop body may take beyond its 0.1 s sleep
SleepSteps == {0, 15}

\* seconds the requests of one refresh may take
RefreshSteps == {0, 15}

\* the dates the local clock may report
Dates == <<"2024-04-01", "2024-04-02">>

(* Program constants *)

DATA_REFRESH_INTERVAL == 60
ROTATION_SPEED == 15
CACHE_TTL == 300
ERROR_SLEEP == 5
RELOAD_SLEEP == 1
SCHEDULE_LIMIT == 5

----------------------------------------------------------------------------
(* JSON values and Python truthiness *)

Dict(f) == [k |-> "dict", v |-> f]
List(s) == [k |-> "list", v |-> s]
Str(s) == [k |-> "str", v |-> s]
Num(n) == [k |-> "num", v |-> n]
Bool(b) == [k |-> "bool", v |-> b]
Null == [k |-> "null", v |-> 0]

EmptyMap == [x \in {} |-> Null]
EmptyDict == Dict(EmptyMap)

\* a Python exception, as the value of an expression that raises
Raise == [k |-> "raise", v |-> 0]

IsDict(j) == j.k = "dict"
IsList(j) == j.k = "list"
IsStr(j) == j.k = "str"
IsRaise(j) == j.k = "raise"

\* bool(j)
Truthy(j) ==
    CASE j.k = "dict" -> DOMAIN j.v # {}
      [] j.k = "list" -> Len(j.v) > 0
      [] j.k = "str" -> j.v # ""
      [] j.k = "num" -> j.v # 0
      [] j.k = "bool" -> j.v
      [] OTHER -> FALSE

\* j.get(key, default): raises (AttributeError) unless j is a dict
Get(j, key, default) ==
    IF IsRaise(j) \/ ~IsDict(j) THEN Raise
    ELSE IF key \in DOMAIN j.v THEN j.v[key] ELSE default

\* j[key] on a dict: raises KeyError when the key is absent
Index(j, key) ==
    IF IsRaise(j) \/ ~IsDict(j) THEN Raise
    ELSE IF key \in DOMAIN j.v THEN j.v[key] ELSE Raise

----------------------------------------------------------------------------
(* The team table, statsapi.py:34-50 *)

team_ids ==
    [BAL |-> 110, BOS |-> 111, NYY |-> 147, TB |-> 139, TOR |-> 141,
     CWS |-> 145, CLE |-> 114, DET |-> 116, KC |-> 118, MIN |-> 142,
     HOU |-> 117, LAA |-> 108, OAK |-> 133, SEA |-> 136, TEX |-> 140,
     ATL |-> 144, MIA |-> 146, NYM |-> 121, PHI |-> 143, WSH |-> 120,
     CHC |-> 112, CIN |-> 113, MIL |-> 158, PIT |-> 134, STL |-> 138,
     ARI |-> 109, COL |-> 115, LAD |-> 119, SD |-> 135, SF |-> 137]

\* str.upper() on the team codes the model uses
Upper(s) ==
    CASE s = "nyy" -> "NYY"
      [] s = "atl" -> "ATL"
      [] OTHER -> s

\* Faulty variant: a code the table does not hold is taken for the
\* favorite team's.
GetTeamIdAny(team_abbr) ==
    IF Upper(team_abbr) \in DOMAIN team_ids THEN team_ids[Upper(team_abbr)]
    ELSE team_ids["NYY"]

\* _get_team_id: the numeric id, or 0 for None
GetTeamId(team_abbr) ==
    IF Upper(team_abbr) \in DOMAIN team_ids THEN team_ids[Upper(team_abbr)]
    ELSE 0

\* _get_team_abbr: the abbreviation as a JSON string, or Null for None
GetTeamAbbr(team_id) ==
    IF team_id.k = "num" /\ \E a \in DOMAIN team_ids : team_ids[a] = team_id.v
    THEN Str(CHOOSE a \in DOMAIN team_ids : team_ids[a] = team_id.v)
    ELSE Null

\* str(team_id) as it is formatted into the query string
IdStr(n) ==
    CASE n = 147 -> "147"
      [] n = 144 -> "144"
      [] n = 121 -> "121"
      [] OTHER -> "id"

----------------------------------------------------------------------------
(* Parsing, statsapi.py:143-229 *)

RECURSIVE GetPath(_, _, _)
\* j.get(k1, {}).get(k2, {}) ... .get(kn, default)
GetPath(j, path, default) ==
    IF Len(path) = 1 THEN Get(j, path[1], default)
    ELSE GetPath(Get(j, path[1], EmptyDict), Tail(path), default)

\* str.lower() on the inning states the model uses
Lower(s) ==
    CASE s = "Top" -> "top"
      [] s = "TOP" -> "top"
      [] s = "Bottom" -> "bottom"
      [] s = "Middle" -> "middle"
      [] s = "End" -> "end"
      [] OTHER -> s

\* key in j, as a JSON bool; raises (TypeError) on a number, bool or null
In(key, j) ==
    CASE IsRaise(j) -> Raise
      [] j.k = "dict" -> Bool(key \in DOMAIN j.v)
      [] j.k = "list" -> Bool(\E i \in 1..Len(j.v) : j.v[i] = Str(key))
      [] j.k = "str" -> Bool(j.v = key)
      [] OTHER -> Raise

\* f"{j}": a string stays itself, anything else is formatted
Format(j) ==
    CASE IsRaise(j) -> Raise
      [] j.k = "str" -> j
      [] OTHER -> Str("repr")

\* "if not abbr and team_id: abbr = self._get_team_abbr(team_id)";
\* the lookup raises (TypeError, unhashable) on a list or a dict
FillAbbr(abbr, team_id) ==
    IF IsRaise(abbr) \/ IsRaise(team_id) THEN Raise
    ELSE IF ~Truthy(abbr) /\ Truthy(team_id)
         THEN IF team_id.k \in {"list", "dict"} THEN Raise
              ELSE GetTeamAbbr(team_id)
         ELSE abbr

\* game_data["teams"][side]["probablePitcher"].get("fullName", ""), taken
\* only when "probablePitcher" in game_data.get("teams", {}).get(side, {})
Pitcher(game_data, side) ==
    LET holder == GetPath(game_data, <<"teams", side>>, EmptyDict)
        has == In("probablePitcher", holder)
    IN  IF IsRaise(has) THEN Raise
        ELSE IF ~has.v THEN Str("")
        ELSE Format(Get(Index(Index(Index(game_data, "teams"), side),
                              "probablePitcher"), "fullName", Str("")))

\* inning_state.lower() == "top": raises unless inning_state is a string
IsTop(inning_state) ==
    IF IsRaise(inning_state) \/ ~IsStr(inning_state) THEN Raise
    ELSE Bool(Lower(inning_state.v) = "top")

\* The fields of the game dictionary in the order the code computes them
GameFields(game_data) ==
    LET linescore == Get(game_data, "linescore", EmptyDict)
        offense == Get(linescore, "offense", EmptyDict)
        home_id == GetPath(game_data, <<"teams", "home", "team", "id">>, Num(0))
        away_id == GetPath(game_data, <<"teams", "away", "team", "id">>, Num(0))
        inning_state == Get(linescore, "inningState", Str(""))
    IN  [game_id |-> Get(game_data, "gamePk", Null),
         date |-> Get(game_data, "officialDate", Str("")),
         status |-> GetPath(game_data, <<"status", "abstractGameState">>, Str("")),
         detailed_status |-> GetPath(game_data, <<"status", "detailedState">>, Str("")),
         start_time |-> Get(game_data, "gameDate", Str("")),
         home_team |-> FillAbbr(GetPath(game_data,
                          <<"teams", "home", "team", "abbreviation">>, Str("")), home_id),
         away_team |-> FillAbbr(GetPath(game_data,
                          <<"teams", "away", "team", "abbreviation">>, Str("")), away_id),
         home_team_id |-> home_id,
         away_team_id |-> away_id,
         home_score |-> GetPath(game_data, <<"teams", "home", "score">>, Num(0)),
         away_score |-> GetPath(game_data, <<"teams", "away", "score">>, Num(0)),
         inning |-> Get(linescore, "currentInning", Num(0)),
         inning_state |-> inning_state,
         is_top |-> IsTop(inning_state),
         outs |-> Get(linescore, "outs", Num(0)),
         balls |-> Get(linescore, "balls", Num(0)),
         strikes |-> Get(linescore, "strikes", Num(0)),
         on_first |-> In("first", offense),
         on_second |-> In("second", offense),
         on_third |-> In("third", offense),
         last_play |-> Str(""),
         series_summary |-> GetPath(game_data, <<"seriesStatus", "description">>, Str("")),
         home_pitcher |-> Pitcher(game_data, "home"),
         away_pitcher |-> Pitcher(game_data, "away")]

\* Faulty variant: the two scores change places.
ParseGameDataSwapped(game_data) ==
    LET f == GameFields(game_data)
    IN  IF \E n \in DOMAIN f : IsRaise(f[n]) THEN Null
        ELSE Dict([f EXCEPT !.home_score = f.away_score,
                            !.away_score = f.home_score])

\* _parse_game_data: the game dictionary, or None when any step raised
ParseGameData(game_data) ==
    LET f == GameFields(game_data)
    IN  IF \E n \in DOMAIN f : IsRaise(f[n]) THEN Null ELSE Dict(f)

----------------------------------------------------------------------------
(* Iteration over a JSON value: "for x in j" *)

\* The elements a for loop visits, as a list; raises (TypeError) on a
\* number, bool or null.  A dict yields its keys and a string its
\* characters: strings, one per key or character; the model keeps one.
Iter(j) ==
    CASE IsRaise(j) -> Raise
      [] j.k = "list" -> j
      [] j.k = "dict" -> IF DOMAIN j.v = {} THEN List(<<>>) ELSE List(<<Str("key")>>)
      [] j.k = "str" -> IF j.v = "" THEN List(<<>>) ELSE List(<<Str("c")>>)
      [] OTHER -> Raise

\* "not response or key not in response" (statsapi.py:129, 255, 280, 332):
\* TRUE, FALSE, or a raise, as a JSON value
Unusable(response, key) ==
    IF ~Truthy(response) THEN Bool(TRUE)
    ELSE LET has == In(key, response)
         IN  IF IsRaise(has) THEN Raise ELSE Bool(~has.v)

----------------------------------------------------------------------------
(* get_games, statsapi.py:112-141 *)

RECURSIVE ParseGamesAbort(_)
\* Faulty variant: the loop is left at the first entry that does not parse.
ParseGamesAbort(gs) ==
    IF Len(gs) = 0 THEN <<>>
    ELSE LET game == ParseGameData(Head(gs))
         IN  IF Truthy(game) THEN <<game>> \o ParseGamesAbort(Tail(gs)) ELSE <<>>

RECURSIVE ParseGames(_)
\* the inner loop: the parsed games of one date, falsy results skipped
ParseGames(gs) ==
    IF Len(gs) = 0 THEN <<>>
    ELSE LET game == ParseGameData(Head(gs))
         IN  (IF Truthy(game) THEN <<game>> ELSE <<>>) \o ParseGames(Tail(gs))

RECURSIVE GamesOfDates(_)
\* the outer loop over response["dates"]
GamesOfDates(ds) ==
    IF Len(ds) = 0 THEN List(<<>>)
    ELSE LET it == Iter(Get(Head(ds), "games", List(<<>>)))
             rest == GamesOfDates(Tail(ds))
         IN  IF IsRaise(it) \/ IsRaise(rest) THEN Raise
             ELSE List(ParseGames(it.v) \o rest.v)

\* get_games applied to what _make_request returned
GetGamesOf(response) ==
    LET un == Unusable(response, "dates")
    IN  IF IsRaise(un) THEN Raise
        ELSE IF un.v THEN List(<<>>)
        ELSE LET it == Iter(Index(response, "dates"))
             IN  IF IsRaise(it) THEN Raise ELSE GamesOfDates(it.v)

----------------------------------------------------------------------------
(* get_team_game, statsapi.py:231-263 *)

RECURSIVE FirstGameLast(_)
\* Faulty variant: the last game of the first date that has games.
FirstGameLast(ds) ==
    IF Len(ds) = 0 THEN Null
    ELSE LET it == Iter(Get(Head(ds), "games", List(<<>>)))
         IN  IF IsRaise(it) THEN Raise
             ELSE IF Len(it.v) > 0 THEN ParseGameData(it.v[Len(it.v)])
             ELSE FirstGameLast(Tail(ds))

RECURSIVE FirstGame(_)
\* the nested loops return at the first game entry they meet
FirstGame(ds) ==
    IF Len(ds) = 0 THEN Null
    ELSE LET it == Iter(Get(Head(ds), "games", List(<<>>)))
         IN  IF IsRaise(it) THEN Raise
             ELSE IF Len(it.v) > 0 THEN ParseGameData(Head(it.v))
             ELSE FirstGame(Tail(ds))

GetTeamGameOf(response) ==
    LET un == Unusable(response, "dates")
    IN  IF IsRaise(un) THEN Raise
        ELSE IF un.v THEN Null
        ELSE LET it == Iter(Index(response, "dates"))
             IN  IF IsRaise(it) THEN Raise ELSE FirstGame(it.v)

----------------------------------------------------------------------------
(* get_standings, statsapi.py:265-310 *)

\* len(j): raises (TypeError) on a number, bool or null
Size(j) ==
    CASE IsRaise(j) -> Raise
      [] j.k = "list" -> Num(Len(j.v))
      [] j.k = "dict" -> Num(Cardinality(DOMAIN j.v))
      [] j.k = "str" -> Num(IF j.v = "" THEN 0 ELSE 1)
      [] OTHER -> Raise

\* f"{a}-{b}"
Dash(a, b) ==
    IF IsRaise(a) \/ IsRaise(b) THEN Raise ELSE [k |-> "fmt", v |-> <<a, b>>]

\* the "last_ten" entry, statsapi.py:298: the wins and losses of
\* splitRecords[3] when there are more than three split records
LastTen(team_record) ==
    LET splits == GetPath(team_record, <<"records", "splitRecords">>, List(<<>>))
        n == Size(splits)
    IN  IF IsRaise(n) THEN Raise
        ELSE IF n.v > 3
             THEN IF ~IsList(splits) THEN Raise
                  ELSE Dash(Get(splits.v[4], "wins", Num(0)),
                            Get(splits.v[4], "losses", Num(0)))
             ELSE Str("0-0")

\* team_data["name"], with the fallback of statsapi.py:301-302
RowName(team_record) ==
    LET name == GetPath(team_record, <<"team", "abbreviation">>, Str(""))
        has == In("id", Get(team_record, "team", EmptyDict))
    IN  IF IsRaise(name) \/ IsRaise(has) THEN Raise
        ELSE IF ~Truthy(name) /\ has.v
             THEN LET id == Index(Index(team_record, "team"), "id")
                  IN  IF id.k \in {"list", "dict"} THEN Raise ELSE GetTeamAbbr(id)
             ELSE name

RowFields(team_record) ==
    [name |-> RowName(team_record),
     wins |-> Get(team_record, "wins", Num(0)),
     losses |-> Get(team_record, "losses", Num(0)),
     pct |-> Get(team_record, "winningPercentage", Str("")),
     gb |-> Get(team_record, "gamesBack", Str("")),
     streak |-> GetPath(team_record, <<"streak", "streakCode">>, Str("")),
     last_ten |-> LastTen(team_record)]

\* one team_data dictionary; a raise is not caught
StandingsRow(team_record) ==
    LET f == RowFields(team_record)
    IN  IF \E n \in DOMAIN f : IsRaise(f[n]) THEN Raise ELSE Dict(f)

RECURSIVE StandingsRows(_)
\* the loop over record.get("teamRecords", []): a sequence of rows, or Raise
StandingsRows(trs) ==
    IF Len(trs) = 0 THEN List(<<>>)
    ELSE LET row == StandingsRow(Head(trs))
             rest == StandingsRows(Tail(trs))
         IN  IF IsRaise(row) \/ IsRaise(rest) THEN Raise
             ELSE List(<<row>> \o rest.v)

RECURSIVE InsertByWins(_, _)
\* x placed behind every row of the descending sequence s whose wins are
\* not smaller: rows with equal wins keep their input order
InsertByWins(x, s) ==
    IF Len(s) = 0 THEN <<x>>
    ELSE IF Head(s).v.wins.v >= x.v.wins.v
         THEN <<Head(s)>> \o InsertByWins(x, Tail(s))
         ELSE <<x>> \o s

RECURSIVE SortedByWins(_)
SortedByWins(rows) ==
    IF Len(rows) = 0 THEN <<>>
    ELSE InsertByWins(rows[Len(rows)], SortedByWins(SubSeq(rows, 1, Len(rows) - 1)))

\* Faulty variant: the rows are left in input order.
SortByWinsNot(rows) == List(rows)

\* team_records.sort(key=lambda x: x["wins"], reverse=True): a stable
\* descending sort; comparing a number with a non-number raises, and the
\* model's payloads hold no two non-numeric wins in one division
SortByWins(rows) ==
    IF Len(rows) <= 1 THEN List(rows)
    ELSE IF \E i \in 1..Len(rows) : rows[i].v.wins.k # "num" THEN Raise
    ELSE List(SortedByWins(rows))

\* the dictionary key a division name makes; a list or dict is unhashable
DivisionKey(name) ==
    CASE name.k = "str" -> name.v
      [] name.k = "num" -> "number"
      [] name.k = "null" -> "None"
      [] OTHER -> "bool"

RECURSIVE StandingsOfRecords(_, _)
\* the loop over response["records"], filling the standings dictionary
StandingsOfRecords(recs, acc) ==
    IF Len(recs) = 0 THEN Dict(acc)
    ELSE LET name == GetPath(Head(recs), <<"division", "nameShort">>, Str("Unknown"))
             it == Iter(Get(Head(recs), "teamRecords", List(<<>>)))
             rows == IF IsRaise(it) THEN Raise ELSE StandingsRows(it.v)
             sorted == IF IsRaise(rows) THEN Raise ELSE SortByWins(rows.v)
         IN  IF IsRaise(name) \/ IsRaise(sorted) THEN Raise
             ELSE IF name.k \in {"list", "dict"} THEN Raise
             ELSE StandingsOfRecords(Tail(recs),
                    [d \in DOMAIN acc \cup {DivisionKey(name)} |->
                        IF d = DivisionKey(name) THEN sorted ELSE acc[d]])

GetStandingsOf(response) ==
    LET un == Unusable(response, "records")
    IN  IF IsRaise(un) THEN Raise
        ELSE IF un.v THEN Null
        ELSE LET it == Iter(Index(response, "records"))
             IN  IF IsRaise(it) THEN Raise ELSE StandingsOfRecords(it.v, EmptyMap)

----------------------------------------------------------------------------
(* get_team_schedule, statsapi.py:312-380 *)

\* "if 'probablePitcher' in ...: game[...] = pitcher.get('fullName', '')"
SchedulePitcher(game_data, side) ==
    LET holder == GetPath(game_data, <<"teams", side>>, EmptyDict)
        has == In("probablePitcher", holder)
    IN  IF IsRaise(has) THEN Raise
        ELSE IF ~has.v THEN Str("")
        ELSE Get(Index(Index(Index(game_data, "teams"), side),
                       "probablePitcher"), "fullName", Str(""))

EntryFields(game_data) ==
    LET home_id == GetPath(game_data, <<"teams", "home", "team", "id">>, Num(0))
        away_id == GetPath(game_data, <<"teams", "away", "team", "id">>, Num(0))
    IN  [date |-> Get(game_data, "officialDate", Str("")),
         home_team |-> FillAbbr(GetPath(game_data,
                          <<"teams", "home", "team", "abbreviation">>, Str("")), home_id),
         away_team |-> FillAbbr(GetPath(game_data,
                          <<"teams", "away", "team", "abbreviation">>, Str("")), away_id),
         home_team_id |-> home_id,
         away_team_id |-> away_id,
         status |-> GetPath(game_data, <<"status", "detailedState">>, Str("")),
         time |-> Get(game_data, "gameDate", Str("")),
         home_pitcher |-> SchedulePitcher(game_data, "home"),
         away_pitcher |-> SchedulePitcher(game_data, "away")]

\* one schedule entry; a raise is not caught
ScheduleEntry(game_data) ==
    LET f == EntryFields(game_data)
    IN  IF \E n \in DOMAIN f : IsRaise(f[n]) THEN Raise ELSE Dict(f)

RECURSIVE EntriesOfDateOver(_, _, _)
\* Faulty variant: the loop is left one entry late.
EntriesOfDateOver(gs, count, limit) ==
    IF Len(gs) = 0 \/ count > limit THEN List(<<>>)
    ELSE LET e == ScheduleEntry(Head(gs))
             rest == IF IsRaise(e) THEN Raise
                     ELSE EntriesOfDateOver(Tail(gs), count + 1, limit)
         IN  IF IsRaise(rest) THEN Raise ELSE List(<<e>> \o rest.v)

RECURSIVE EntriesOfDate(_, _, _)
\* the inner loop: entries are added until count reaches limit
EntriesOfDate(gs, count, limit) ==
    IF Len(gs) = 0 \/ count >= limit THEN List(<<>>)
    ELSE LET e == ScheduleEntry(Head(gs))
             rest == IF IsRaise(e) THEN Raise
                     ELSE EntriesOfDate(Tail(gs), count + 1, limit)
         IN  IF IsRaise(rest) THEN Raise ELSE List(<<e>> \o rest.v)

RECURSIVE EntriesOfDates(_, _, _)
\* the outer loop, left once count reaches limit
EntriesOfDates(ds, count, limit) ==
    IF Len(ds) = 0 THEN List(<<>>)
    ELSE LET it == Iter(Get(Head(ds), "games", List(<<>>)))
             taken == IF IsRaise(it) THEN Raise
                      ELSE EntriesOfDate(it.v, count, limit)
         IN  IF IsRaise(taken) THEN Raise
             ELSE IF count + Len(taken.v) >= limit THEN taken
             ELSE LET rest == EntriesOfDates(Tail(ds), count + Len(taken.v), limit)
                  IN  IF IsRaise(rest) THEN Raise ELSE List(taken.v \o rest.v)

GetTeamScheduleOf(response, limit) ==
    LET un == Unusable(response, "dates")
    IN  IF IsRaise(un) THEN Raise
        ELSE IF un.v THEN Null
        ELSE LET it == Iter(Index(response, "dates"))
             IN  IF IsRaise(it) THEN Raise ELSE EntriesOfDates(it.v, 0, limit)

----------------------------------------------------------------------------
(* Requests and the response cache, statsapi.py:52-110 *)

BASE_URL == "https://statsapi.mlb.com/api/v1"
SCHEDULE == "/schedule"
STANDINGS == "/standings"
HYDRATE == "team,linescore,broadcasts(all),game(content(summary)),probablePitcher,flags,seriesStatus"

\* the URL: base, endpoint and the "k=v" pairs in the order of the params
Url(endpoint, params) == <<BASE_URL, endpoint, params>>

GamesUrl(date) ==
    Url(SCHEDULE, <<<<"sportId", "1">>, <<"date", date>>, <<"hydrate", HYDRATE>>>>)

\* Faulty variant: the team id is left out of the request.
TeamGameUrlNoTeam(team_id, date) == GamesUrl(date)

TeamGameUrl(team_id, date) ==
    Url(SCHEDULE, <<<<"sportId", "1">>, <<"date", date>>,
                    <<"teamId", IdStr(team_id)>>, <<"hydrate", HYDRATE>>>>)

\* time.localtime()[0] of a date of the model
YearOf(date) == "2024"

StandingsUrl(date) ==
    Url(STANDINGS, <<<<"leagueId", "103,104">>, <<"season", YearOf(date)>>,
                     <<"standingsTypes", "regularSeason">>,
                     <<"hydrate", "team,division,sport,league">>>>)

TeamScheduleUrl(team_id, date) ==
    Url(SCHEDULE, <<<<"sportId", "1">>, <<"teamId", IdStr(team_id)>>,
                    <<"startDate", date>>, <<"gameType", "R">>,
                    <<"hydrate", "team,probablePitcher">>>>)

\* What network.fetch(url) hands back: the text of a JSON document, None
\* (Network.fetch on an error or a non-200 status), or anything json.loads
\* rejects (text that is no JSON, the tuple of ESPWiFiManager.fetch).
Text(j) == [kind |-> "text", json |-> j]
NoResponse == [kind |-> "none", json |-> Null]
Garbage == [kind |-> "garbage", json |-> Null]

\* json.loads(response): raises on anything but the text of a document
JsonLoads(body) == IF body.kind = "text" THEN body.json ELSE Raise

\* clear_cache
ClearedCache == [cache |-> [u \in {} |-> Null], expiry |-> [u \in {} |-> 0]]

\* Faulty variant: "<=" for "<" in the expiry test of statsapi.py:84.
MakeRequestLate(cs, url, t, body) ==
    IF url \in DOMAIN cs.cache
       /\ t <= (IF url \in DOMAIN cs.expiry THEN cs.expiry[url] ELSE 0)
    THEN [cache |-> cs.cache, expiry |-> cs.expiry, data |-> cs.cache[url],
          fetched |-> {}, failed |-> {}]
    ELSE LET data == JsonLoads(body)
         IN  IF IsRaise(data)
             THEN [cache |-> cs.cache, expiry |-> cs.expiry, data |-> Null,
                   fetched |-> {url}, failed |-> {url}]
             ELSE [cache |-> [u \in DOMAIN cs.cache \cup {url} |->
                                IF u = url THEN data ELSE cs.cache[u]],
                   expiry |-> [u \in DOMAIN cs.expiry \cup {url} |->
                                IF u = url THEN t + CACHE_TTL ELSE cs.expiry[u]],
                   data |-> data, fetched |-> {url}, failed |-> {}]

\* Faulty variant: a fetched payload is stored only under a new key
\* (setdefault), an entry that exists keeps its payload and expiry.
MakeRequestKeeps(cs, url, t, body) ==
    IF url \in DOMAIN cs.cache
       /\ t < (IF url \in DOMAIN cs.expiry THEN cs.expiry[url] ELSE 0)
    THEN [cache |-> cs.cache, expiry |-> cs.expiry, data |-> cs.cache[url],
          fetched |-> {}, failed |-> {}]
    ELSE LET data == JsonLoads(body)
         IN  IF IsRaise(data)
             THEN [cache |-> cs.cache, expiry |-> cs.expiry, data |-> Null,
                   fetched |-> {url}, failed |-> {url}]
             ELSE [cache |-> [u \in DOMAIN cs.cache \cup {url} |->
                                IF u \in DOMAIN cs.cache THEN cs.cache[u] ELSE data],
                   expiry |-> [u \in DOMAIN cs.expiry \cup {url} |->
                                IF u \in DOMAIN cs.expiry THEN cs.expiry[u]
                                ELSE t + CACHE_TTL],
                   data |-> data, fetched |-> {url}, failed |-> {}]

\* Faulty variant: a failed request drops the entry of its key.
MakeRequestDrops(cs, url, t, body) ==
    IF url \in DOMAIN cs.cache
       /\ t < (IF url \in DOMAIN cs.expiry THEN cs.expiry[url] ELSE 0)
    THEN [cache |-> cs.cache, expiry |-> cs.expiry, data |-> cs.cache[url],
          fetched |-> {}, failed |-> {}]
    ELSE LET data == JsonLoads(body)
         IN  IF IsRaise(data)
             THEN [cache |-> [u \in DOMAIN cs.cache \ {url} |-> cs.cache[u]],
                   expiry |-> [u \in DOMAIN cs.expiry \ {url} |-> cs.expiry[u]],
                   data |-> Null, fetched |-> {url}, failed |-> {url}]
             ELSE [cache |-> [u \in DOMAIN cs.cache \cup {url} |->
                                IF u = url THEN data ELSE cs.cache[u]],
                   expiry |-> [u \in DOMAIN cs.expiry \cup {url} |->
                                IF u = url THEN t + CACHE_TTL ELSE cs.expiry[u]],
                   data |-> data, fetched |-> {url}, failed |-> {}]

\* Faulty variant: force_refresh taken as True, the cache never consulted.
MakeRequestForced(cs, url, t, body) ==
    LET data == JsonLoads(body)
    IN  IF IsRaise(data)
        THEN [cache |-> cs.cache, expiry |-> cs.expiry, data |-> Null,
              fetched |-> {url}, failed |-> {url}]
        ELSE [cache |-> [u \in DOMAIN cs.cache \cup {url} |->
                           IF u = url THEN data ELSE cs.cache[u]],
              expiry |-> [u \in DOMAIN cs.expiry \cup {url} |->
                           IF u = url THEN t + CACHE_TTL ELSE cs.expiry[u]],
              data |-> data, fetched |-> {url}, failed |-> {}]

\* _make_request with force_refresh=False at time t; body is what the
\* network returns if it is asked.  The result carries the new cache, the
\* value returned, and the urls fetched and those whose fetch failed.
MakeRequest(cs, url, t, body) ==
    IF url \in DOMAIN cs.cache
       /\ t < (IF url \in DOMAIN cs.expiry THEN cs.expiry[url] ELSE 0)
    THEN [cache |-> cs.cache, expiry |-> cs.expiry, data |-> cs.cache[url],
          fetched |-> {}, failed |-> {}]
    ELSE LET data == JsonLoads(body)
         IN  IF IsRaise(data)
             THEN [cache |-> cs.cache, expiry |-> cs.expiry, data |-> Null,
                   fetched |-> {url}, failed |-> {url}]
             ELSE [cache |-> [u \in DOMAIN cs.cache \cup {url} |->
                                IF u = url THEN data ELSE cs.cache[u]],
                   expiry |-> [u \in DOMAIN cs.expiry \cup {url} |->
                                IF u = url THEN t + CACHE_TTL ELSE cs.expiry[u]],
                   data |-> data, fetched |-> {url}, failed |-> {}]

\* the result of a client call: the request's effects, what _make_request
\* returned and the value the method returned
Returned(r, value) ==
    [cache |-> r.cache, expiry |-> r.expiry, data |-> r.data, value |-> value,
     fetched |-> r.fetched, failed |-> r.failed]

\* a client call that returns before any request
NoRequest(cs, value) ==
    [cache |-> cs.cache, expiry |-> cs.expiry, data |-> Null, value |-> value,
     fetched |-> {}, failed |-> {}]

get_games(cs, date, t, body) ==
    LET r == MakeRequest(cs, GamesUrl(date), t, body)
    IN  Returned(r, GetGamesOf(r.data))

get_team_game(cs, team_abbr, date, t, body) ==
    IF GetTeamId(team_abbr) = 0 THEN NoRequest(cs, Null)
    ELSE LET r == MakeRequest(cs, TeamGameUrl(GetTeamId(team_abbr), date), t, body)
         IN  Returned(r, GetTeamGameOf(r.data))

get_standings(cs, date, t, body) ==
    LET r == MakeRequest(cs, StandingsUrl(date), t, body)
    IN  Returned(r, GetStandingsOf(r.data))

\* get_current_date_string supplies the start date: the local date
get_team_schedule(cs, team_abbr, limit, date, t, body) ==
    IF GetTeamId(team_abbr) = 0 THEN NoRequest(cs, Null)
    ELSE LET r == MakeRequest(cs, TeamScheduleUrl(GetTeamId(team_abbr), date), t, body)
         IN  Returned(r, GetTeamScheduleOf(r.data, limit))

----------------------------------------------------------------------------
(* Upstream payloads the model draws from *)

Team(abbr, id) == Dict([abbreviation |-> Str(abbr), id |-> Num(id)])

Side(team, score) == Dict([team |-> team, score |-> Num(score)])

\* ATL 5, NYM 3, Final
FinalGame ==
    Dict([gamePk |-> Num(1), officialDate |-> Str("2024-04-01"),
          status |-> Dict([abstractGameState |-> Str("Final"),
                           detailedState |-> Str("Final")]),
          teams |-> Dict([home |-> Side(Team("ATL", 144), 5),
                          away |-> Side(Team("NYM", 121), 3)])])

\* BOS at NYY, top of the 7th, two out, a runner on first
LiveGame ==
    Dict([gamePk |-> Num(2), officialDate |-> Str("2024-04-01"),
          status |-> Dict([abstractGameState |-> Str("Live"),
                           detailedState |-> Str("In Progress")]),
          teams |-> Dict([home |-> Side(Team("NYY", 147), 2),
                          away |-> Side(Team("BOS", 111), 4)]),
          linescore |-> Dict([currentInning |-> Num(7),
                              inningState |-> Str("Top"),
                              outs |-> Num(2), balls |-> Num(3),
                              strikes |-> Num(1),
                              offense |-> Dict([first |-> Dict([id |-> Num(9)])])])])

\* an entry whose "teams" is null: parsing it raises
BadGame == Dict([gamePk |-> Num(3), teams |-> Null])

\* NYY at TB, scheduled
UpcomingGame ==
    Dict([gamePk |-> Num(4), officialDate |-> Str("2024-04-02"),
          status |-> Dict([abstractGameState |-> Str("Preview"),
                           detailedState |-> Str("Scheduled")]),
          teams |-> Dict([home |-> Dict([team |-> Team("TB", 139)]),
                          away |-> Dict([team |-> Team("NYY", 147)])])])

DatesOf(gs) == Dict([dates |-> List(<<Dict([games |-> List(gs)])>>)])

NoDates == Dict([dates |-> List(<<>>)])

TeamRecord(abbr, id, w, l) ==
    Dict([team |-> Team(abbr, id), wins |-> Num(w), losses |-> Num(l)])

ALEast ==
    Dict([division |-> Dict([nameShort |-> Str("AL East")]),
          teamRecords |-> List(<<TeamRecord("BOS", 111, 3, 2),
                                 TeamRecord("NYY", 147, 5, 0),
                                 TeamRecord("TB", 139, 3, 2)>>)])

StandingsPayload == Dict([records |-> List(<<ALEast>>)])

NoRecords == Dict([records |-> List(<<>>)])

----------------------------------------------------------------------------
(* The screens, screens.py *)

SCREENS == <<"splash", "game", "standings", "schedule">>

\* the text of a label made of two formatted values
Label(a, b) == [k |-> "fmt", v |-> <<a, b>>]

\* the labels a screen is constructed with (screens.py:85-114, 146-164,
\* 204-222)
GameViewInit == [title |-> Str("Game"), away |-> Str("AWAY"), home |-> Str("HOME")]
StandingsViewInit == [title |-> Str("Standings"), text |-> Str("Loading...")]
ScheduleViewInit == [text |-> Str("Loading...")]

\* GameScreen.update(games, favorite_game), screens.py:116-138
GameLabels(game) ==
    [title |-> Format(Index(game, "status")),
     away |-> Label(Index(game, "away_team"), Get(game, "away_score", Num(0))),
     home |-> Label(Index(game, "home_team"), Get(game, "home_score", Num(0)))]

\* the labels of a day without games, screens.py:134-138
NoGamesView == [title |-> Str("No games today"), away |-> Str(""), home |-> Str("")]

GameScreenUpdate(gs, favorite) ==
    IF Truthy(favorite) THEN GameLabels(favorite)
    ELSE IF Truthy(gs) /\ Len(gs.v) > 0 THEN GameLabels(gs.v[1])
    ELSE NoGamesView

\* standings[0], schedule[i]: a list is indexed by position, a dict by
\* key, and no dict built from JSON has the key 0
At(j, i) ==
    IF IsList(j) /\ i + 1 \in 1..Len(j.v) THEN j.v[i + 1] ELSE Raise

RECURSIVE StandingsLines(_, _)
\* "{i+1}. {team['team_abbrev']} {team['w']}-{team['l']}" per team
StandingsLines(teams_seq, n) ==
    IF Len(teams_seq) = 0 \/ n = 0 THEN List(<<>>)
    ELSE LET line == <<Index(Head(teams_seq), "team_abbrev"),
                       Index(Head(teams_seq), "w"), Index(Head(teams_seq), "l")>>
             rest == StandingsLines(Tail(teams_seq), n - 1)
         IN  IF (\E i \in 1..3 : IsRaise(line[i])) \/ IsRaise(rest) THEN Raise
             ELSE List(<<[k |-> "fmt", v |-> line]>> \o rest.v)

\* the outcome of a screen's update: its labels, or a raise that leaves
\* the labels as they were
Updated(view) == [raised |-> FALSE, view |-> view]
UpdateRaised(view) == [raised |-> TRUE, view |-> view]

\* StandingsScreen.update(standings), screens.py:166-185
StandingsScreenUpdate(view, st) ==
    IF Truthy(st)
    THEN LET division == At(st, 0)
             name == Index(division, "division_name")
             teams == Index(division, "teams")
             lines == IF IsRaise(teams) \/ ~IsList(teams) THEN Raise
                      ELSE StandingsLines(teams.v, 3)
         IN  IF IsRaise(name) THEN UpdateRaised(view)
             ELSE IF IsRaise(lines)
                  THEN UpdateRaised([view EXCEPT !.title = Format(name)])
                  ELSE Updated([title |-> Format(name), text |-> lines])
    ELSE Updated([title |-> Str("Standings"), text |-> Str("No data")])

RECURSIVE ScheduleLines(_, _)
\* "{date}: vs {opponent}" for each of the first three entries
ScheduleLines(entries, n) ==
    IF Len(entries) = 0 \/ n = 0 THEN List(<<>>)
    ELSE LET opponent == Index(Head(entries), "opponent")
             date == Index(Head(entries), "date")
             rest == ScheduleLines(Tail(entries), n - 1)
         IN  IF IsRaise(opponent) \/ IsRaise(date) \/ IsRaise(rest) THEN Raise
             ELSE List(<<Label(date, opponent)>> \o rest.v)

\* ScheduleScreen.update(schedule), screens.py:224-239
ScheduleScreenUpdate(view, sc) ==
    IF Truthy(sc)
    THEN LET lines == IF IsList(sc) THEN ScheduleLines(sc.v, 3) ELSE Raise
         IN  IF IsRaise(lines) THEN UpdateRaised(view)
             ELSE Updated([text |-> lines])
    ELSE Updated([text |-> Str("No upcoming games")])

----------------------------------------------------------------------------
(* MLBScoreboard._update_screens, code.py:380-388 *)

RECURSIVE UpdateScreensFrom(_, _, _, _, _, _)
\* The loop over self.screens.  views holds the labels of the three data
\* screens and whether an update raised; a raise ends the loop.
UpdateScreensFrom(scr, views, gs, favorite, st, sc) ==
    IF Len(scr) = 0 THEN views
    ELSE CASE Head(scr) = "game" /\ Truthy(gs) ->
                UpdateScreensFrom(Tail(scr),
                    [views EXCEPT !.game = GameScreenUpdate(gs, favorite)],
                    gs, favorite, st, sc)
           [] Head(scr) = "standings" /\ Truthy(st) ->
                LET u == StandingsScreenUpdate(views.standings, st)
                IN  IF u.raised
                    THEN [views EXCEPT !.standings = u.view, !.raised = TRUE]
                    ELSE UpdateScreensFrom(Tail(scr),
                            [views EXCEPT !.standings = u.view],
                            gs, favorite, st, sc)
           [] Head(scr) = "schedule" /\ Truthy(sc) ->
                LET u == ScheduleScreenUpdate(views.schedule, sc)
                IN  IF u.raised
                    THEN [views EXCEPT !.schedule = u.view, !.raised = TRUE]
                    ELSE UpdateScreensFrom(Tail(scr),
                            [views EXCEPT !.schedule = u.view],
                            gs, favorite, st, sc)
           [] OTHER -> UpdateScreensFrom(Tail(scr), views, gs, favorite, st, sc)

\* Faulty variant: the Game screen is updated without the "and self.games"
\* test of code.py:383, so an empty pull blanks it.
UpdateScreensAlways(scr, views, gs, favorite, st, sc) ==
    UpdateScreensFrom(scr,
        [views EXCEPT !.game = GameScreenUpdate(gs, favorite)],
        gs, favorite, st, sc)

UpdateScreens(scr, views, gs, favorite, st, sc) ==
    UpdateScreensFrom(scr, views, gs, favorite, st, sc)

----------------------------------------------------------------------------
(* MLBScoreboard.refresh_data, code.py:266-378 *)

\* time_util.get_current_date() at the monotonic time t (code.py:315):
\* the local date, which changes at midnight
DateAt(t) == IF t >= SecondsToMidnight THEN Dates[2] ELSE Dates[1]

FAVORITE_TEAM == "NYY"

Cs(r) == [cache |-> r.cache, expiry |-> r.expiry]

\* the client call of refresh_data that raised: 1-4, or 0 if none did
FailedCall(r1, r2, r3, r4) ==
    IF IsRaise(r1.value) THEN 1
    ELSE IF IsRaise(r2.value) THEN 2
    ELSE IF IsRaise(r3.value) THEN 3
    ELSE IF IsRaise(r4.value) THEN 4 ELSE 0

\* The state refresh_data leaves at time t + d, given the results r1..r4 of
\* its four client calls, the call that raised (stage14) and the labels
\* _update_screens left (views).  stage is 0 when refresh_data returns
\* True, and otherwise the step that raised: 1-4 for the client calls, 5
\* for _update_screens.
RefreshResult(t, d, r1, r2, r3, r4, stage14, views) ==
    LET stage == IF stage14 # 0 THEN stage14 ELSE IF views.raised THEN 5 ELSE 0
        last == CASE stage = 1 -> r1 [] stage = 2 -> r2 [] stage = 3 -> r3
                  [] OTHER -> r4
    IN  [stage |-> stage,
         cache |-> last.cache,
         expiry |-> last.expiry,
         games |-> IF stage = 1 THEN games ELSE r1.value,
         favorite_game |-> IF stage \in {1, 2} THEN favorite_game ELSE r2.value,
         standings |-> IF stage \in {1, 2, 3} THEN standings ELSE r3.value,
         schedule |-> IF stage \in {1, 2, 3, 4} THEN schedule ELSE r4.value,
         views |-> views,
         fetched |-> r1.fetched
                     \cup (IF stage = 1 THEN {} ELSE r2.fetched)
                     \cup (IF stage \in {1, 2} THEN {} ELSE r3.fetched)
                     \cup (IF stage \in {1, 2, 3} THEN {} ELSE r4.fetched),
         failed |-> r1.failed
                     \cup (IF stage = 1 THEN {} ELSE r2.failed)
                     \cup (IF stage \in {1, 2} THEN {} ELSE r3.failed)
                     \cup (IF stage \in {1, 2, 3} THEN {} ELSE r4.failed),
         has_data |-> IF stage = 0 THEN TRUE ELSE has_data,
         last_data_refresh |-> IF stage = 0 THEN t + d ELSE last_data_refresh,
         status_pixel |-> IF stage = 0 THEN "green" ELSE "orange",
         error_view |-> IF stage # 0 /\ error_view # "none"
                        THEN "Data Error" ELSE error_view,
         shown |-> IF stage # 0 /\ error_view # "none" THEN "error" ELSE shown]

\* code.py:351-352: _update_screens runs if no client call raised; the
\* result holds the labels of the three data screens and whether an
\* update raised
ScreensAfter(stage14, r1, r2, r3, r4) ==
    IF stage14 = 0
    THEN UpdateScreens(screens,
             [game |-> game_view, standings |-> standings_view,
              schedule |-> schedule_view, raised |-> FALSE],
             r1.value, r2.value, r3.value, r4.value)
    ELSE [game |-> game_view, standings |-> standings_view,
          schedule |-> schedule_view, raised |-> FALSE]

\* What the upstream service answers to the four requests of one refresh
\* (games, team game, standings, team schedule): everything down; a game
\* day with empty standings and schedule; games up while standings and
\* schedule are down; everything up; games up and a standings document
\* whose "records" is null, on which get_standings raises.
Answers(bg, bf, bs, bc) ==
    [games |-> bg, team_game |-> bf, standings |-> bs, schedule |-> bc]

UpstreamAnswers ==
    {Answers(NoResponse, NoResponse, NoResponse, NoResponse),
     Answers(Text(DatesOf(<<FinalGame, BadGame>>)), Text(NoDates),
             Text(NoRecords), Text(NoDates)),
     Answers(Text(DatesOf(<<LiveGame, FinalGame>>)), Text(DatesOf(<<LiveGame>>)),
             NoResponse, NoResponse),
     Answers(Text(DatesOf(<<LiveGame>>)), Text(DatesOf(<<LiveGame>>)),
             Text(StandingsPayload), Text(DatesOf(<<UpcomingGame>>))),
     Answers(Text(DatesOf(<<FinalGame>>)), Text(DatesOf(<<FinalGame>>)),
             Text(Dict([records |-> Null])), Text(NoDates))}

\* refresh_data called from the loop (auto) or by the serial command 'r',
\* at the time clock and taking d seconds, the network answering up to the
\* requests that reach it.  The application enters the loop with network,
\* mlb_client and time_util set by initialize, so the date of the requests
\* is time_util.get_current_date().
RefreshData(auto, next_pc) ==
    \E up \in UpstreamAnswers :
    \E r1 \in {get_games([cache |-> cache, expiry |-> cache_expiry],
                         today, clock, up.games)} :
    \E r2 \in {get_team_game(Cs(r1), FAVORITE_TEAM, today, clock, up.team_game)} :
    \E r3 \in {get_standings(Cs(r2), today, clock, up.standings)} :
    \E r4 \in {get_team_schedule(Cs(r3), FAVORITE_TEAM, SCHEDULE_LIMIT, today,
                                 clock, up.schedule)} :
    \E stage14 \in {FailedCall(r1, r2, r3, r4)} :
    \E views \in {ScreensAfter(stage14, r1, r2, r3, r4)} :
    \E d \in RefreshSteps :
        \E o \in {RefreshResult(clock, d, r1, r2, r3, r4, stage14, views)} :
            /\ clock + d <= MaxClock
            /\ clock' = clock + d
            /\ today' = DateAt(clock + d)
            /\ cache' = o.cache
            /\ cache_expiry' = o.expiry
            /\ games' = o.games
            /\ favorite_game' = o.favorite_game
            /\ standings' = o.standings
            /\ schedule' = o.schedule
            /\ game_view' = o.views.game
            /\ standings_view' = o.views.standings
            /\ schedule_view' = o.views.schedule
            /\ has_data' = o.has_data
            /\ last_data_refresh' = o.last_data_refresh
            /\ status_pixel' = o.status_pixel
            /\ error_view' = o.error_view
            /\ shown' = o.shown
            /\ last_op' = [op |-> "refresh", ret |-> o.stage = 0,
                           stage |-> o.stage, fetched |-> o.fetched # {},
                           failed |-> o.failed # {}, at |-> clock + d,
                           auto |-> auto, date |-> today, url |-> <<>>,
                           before |-> 0, data |-> Null, value |-> Null,
                           team |-> FAVORITE_TEAM, limit |-> SCHEDULE_LIMIT]
            /\ pc' = next_pc
            /\ UNCHANGED <<now, last_screen_change, current_screen, screens,
                           is_initialized, wifi_ok, rot_log, out_log, faults,
                           serial_lines, wifi>>

----------------------------------------------------------------------------
(* MLBScoreboard.rotate_screen, code.py:390-401 *)

Keep(n, s) == IF Len(s) <= n THEN s ELSE SubSeq(s, Len(s) - n + 1, Len(s))

\* Faulty variant: the index wraps one screen early.
NextScreenShort(cur, n) == (cur + 1) % (n - 1)

NextScreen(cur, n) == (cur + 1) % n

\* Faulty variant: the index is incremented without the modulo.
RotateScreenNoWrap ==
    IF Len(screens) <= 1 \/ ~is_initialized
    THEN UNCHANGED <<current_screen, shown, last_screen_change, rot_log>>
    ELSE /\ current_screen' = current_screen + 1
         /\ shown' = IF current_screen' < Len(screens)
                     THEN screens[current_screen' + 1] ELSE shown
         /\ last_screen_change' = clock
         /\ rot_log' = Keep(Len(screens), Append(rot_log, shown'))

RotateScreen ==
    IF Len(screens) <= 1 \/ ~is_initialized
    THEN UNCHANGED <<current_screen, shown, last_screen_change, rot_log>>
    ELSE /\ current_screen' = NextScreen(current_screen, Len(screens))
         /\ shown' = screens[current_screen' + 1]
         /\ last_screen_change' = clock
         /\ rot_log' = Keep(Len(screens), Append(rot_log, shown'))

----------------------------------------------------------------------------
(* MLBScoreboard.__init__ and initialize, code.py:89-201 *)

\* last_op before any call: op names the call, ret and stage its outcome,
\* fetched and failed whether the network was asked and whether a request
\* failed, at the time it returned; for a client call, url is the request,
\* before the expiry the cache held for it (0 if none), data what
\* _make_request returned and value what the method returned
NoOp == [op |-> "none", ret |-> TRUE, stage |-> 0, fetched |-> FALSE,
         failed |-> FALSE, at |-> 0, auto |-> FALSE, date |-> "", url |-> <<>>,
         before |-> 0, data |-> Null, value |-> Null, team |-> "",
         limit |-> 0]

\* out_log before any call: stored maps a url to the payload of its most
\* recent successful fetch and the time of that fetch (emptied by
\* clear_cache), result maps a date to the most recent get_games result
NoLog == [stored |-> EmptyMap, result |-> EmptyMap]

\* wifi before any call of ensure_wifi_connection: max_attempts is the
\* argument, ssid and password what secrets.get returned ("None" for an
\* absent key), has_esp_wifi the module flag of network_check.py:13-20, esp
\* whether ESPWiFiManager.__init__ got its ESP32 (esp_wifi.py:34-55), pixel
\* whether the NeoPixel of network_check.py:34-39 was made, attempt the
\* connection attempts started so far and connected the radio's state as
\* the last attempt read it
NoCall == [max_attempts |-> 0, ssid |-> "None", password |-> "None",
           has_esp_wifi |-> FALSE, esp |-> FALSE, pixel |-> FALSE,
           attempt |-> 0, connected |-> FALSE]

\* the state __init__ leaves (code.py:97-122), the WiFi check of the
\* entry point (code.py:503) having passed, for an object that has its
\* status_pixel (the assignment of code.py:119-121 in place; SpecBoot
\* below follows the process as written)
Init ==
    /\ pc = "init"
    /\ clock = 0
    /\ now = 0
    /\ last_data_refresh = 0
    /\ last_screen_change = 0
    /\ current_screen = 0
    /\ screens = <<>>
    /\ is_initialized = FALSE
    /\ has_data = FALSE
    /\ games = List(<<>>)
    /\ favorite_game = Null
    /\ standings = Null
    /\ schedule = Null
    /\ status_pixel = "blue"
    /\ shown = "none"
    /\ game_view = GameViewInit
    /\ standings_view = StandingsViewInit
    /\ schedule_view = ScheduleViewInit
    /\ error_view = "none"
    /\ cache = ClearedCache.cache
    /\ cache_expiry = ClearedCache.expiry
    /\ today = Dates[1]
    /\ wifi_ok = TRUE
    /\ last_op = NoOp
    /\ rot_log = <<>>
    /\ out_log = NoLog
    /\ faults = 0
    /\ serial_lines = 0
    /\ wifi = NoCall

\* network_check.ensure_wifi_connection has just returned ok
EnsureWifi(ok) == [NoOp EXCEPT !.op = "ensure_wifi", !.ret = ok, !.at = clock]

\* initialize() returns True: display, network, client and screens are
\* constructed and the splash screen is shown (code.py:131-194)
InitializeOk ==
    /\ pc = "init"
    /\ screens' = SCREENS
    /\ error_view' = "Error"
    /\ shown' = screens'[1]
    /\ status_pixel' = "green"
    /\ is_initialized' = TRUE
    /\ cache' = ClearedCache.cache
    /\ cache_expiry' = ClearedCache.expiry
    /\ wifi_ok' = TRUE
    /\ pc' = "loop"
    /\ UNCHANGED <<clock, now, last_data_refresh, last_screen_change,
                   current_screen, has_data, games, favorite_game, standings,
                   schedule, game_view, standings_view, schedule_view, today,
                   last_op, rot_log, out_log, faults, serial_lines, wifi>>

\* initialize() returns False: ensure_wifi_connection fails (code.py:140-142),
\* a constructor before the screens raises ("early"), or one after
\* _init_screens raises ("late", code.py:180-183)
InitializeFails ==
    /\ pc = "init"
    /\ \E why \in {"wifi", "early", "late"} :
        /\ wifi_ok' = (why # "wifi")
        /\ status_pixel' = IF why = "wifi" THEN status_pixel ELSE "red"
        /\ screens' = IF why = "late" THEN SCREENS ELSE screens
        /\ error_view' = IF why = "late" THEN "Error" ELSE error_view
        /\ last_op' = IF why = "wifi" THEN EnsureWifi(FALSE) ELSE last_op
    /\ pc' = "init_failed"
    /\ UNCHANGED <<clock, now, last_data_refresh, last_screen_change,
                   current_screen, is_initialized, has_data, games,
                   favorite_game, standings, schedule, shown, game_view,
                   standings_view, schedule_view, cache, cache_expiry, today,
                   rot_log, out_log, faults, serial_lines, wifi>>

\* run() after a failed initialize (code.py:406-420): the error screen is
\* shown if there is one, then ensure_wifi_connection(max_attempts=5)
\* decides between a reload and the fail-safe loop
Recover ==
    /\ pc = "init_failed"
    /\ IF error_view # "none"
       THEN error_view' = "Init Error" /\ shown' = "error"
       ELSE UNCHANGED <<error_view, shown>>
    /\ \E ok \in BOOLEAN :
        /\ wifi_ok' = ok
        /\ last_op' = EnsureWifi(ok)
        /\ pc' = IF ok THEN "reloaded" ELSE "failsafe"
    /\ UNCHANGED <<clock, now, last_data_refresh, last_screen_change,
                   current_screen, screens, is_initialized, has_data, games,
                   favorite_game, standings, schedule, status_pixel,
                   game_view, standings_view, schedule_view, cache,
                   cache_expiry, today, rot_log, out_log, faults, serial_lines, wifi>>

\* one pass of the fail-safe loop (code.py:422-431): blink for a second,
\* reload if serial bytes are waiting
FailSafe ==
    /\ pc = "failsafe"
    /\ clock + RELOAD_SLEEP <= MaxClock
    /\ clock' = clock + RELOAD_SLEEP
    /\ today' = DateAt(clock + RELOAD_SLEEP)
    /\ status_pixel' = "off"
    /\ \E bytes \in BOOLEAN : pc' = IF bytes THEN "reloaded" ELSE "failsafe"
    /\ UNCHANGED <<now, last_data_refresh, last_screen_change, current_screen,
                   screens, is_initialized, has_data, games, favorite_game,
                   standings, schedule, shown, game_view, standings_view,
                   schedule_view, error_view, cache, cache_expiry,
                   wifi_ok, last_op, rot_log, out_log, faults, serial_lines, wifi>>

----------------------------------------------------------------------------
(* The main loop of run(), code.py:434-497 *)

dataVars == <<games, favorite_game, standings, schedule, game_view,
              standings_view, schedule_view, cache, cache_expiry, has_data,
              last_data_refresh, last_op, out_log>>

envVars == <<faults, serial_lines, wifi>>

\* code.py:436-441: sample the clock and decide whether to refresh
\* Faulty variant: ">" for ">=" in the test of code.py:439.
RefreshDueLate(t) == ~has_data \/ (t - last_data_refresh) > DATA_REFRESH_INTERVAL

RefreshDue(t) == ~has_data \/ (t - last_data_refresh) >= DATA_REFRESH_INTERVAL

IterBegin ==
    /\ pc = "loop"
    /\ now' = clock
    /\ pc' = IF RefreshDue(clock) THEN "refresh" ELSE "rotate"
    /\ UNCHANGED <<clock, last_screen_change, current_screen, screens,
                   is_initialized, status_pixel, shown, error_view, wifi_ok,
                   rot_log>>
    /\ UNCHANGED envVars
    /\ UNCHANGED today
    /\ UNCHANGED dataVars

\* code.py:441
AutoRefresh ==
    /\ pc = "refresh"
    /\ RefreshData(TRUE, "rotate")

\* code.py:443-446
\* Faulty variant: the test of code.py:444 without "self.has_data and".
RotationDueNoData == (now - last_screen_change) >= ROTATION_SPEED

RotationDue == has_data /\ (now - last_screen_change) >= ROTATION_SPEED

\* Faulty variant: one timer for both, a rotation restarts the refresh
\* interval as well.
TimedRotateRestarts ==
    /\ pc = "rotate"
    /\ IF RotationDue
       THEN RotateScreen /\ last_data_refresh' = clock
       ELSE UNCHANGED <<current_screen, shown, last_screen_change, rot_log,
                        last_data_refresh>>
    /\ pc' = "render"
    /\ UNCHANGED <<clock, now, screens, is_initialized, status_pixel,
                   error_view, wifi_ok>>
    /\ UNCHANGED envVars
    /\ UNCHANGED today
    /\ UNCHANGED <<games, favorite_game, standings, schedule, game_view,
                   standings_view, schedule_view, cache, cache_expiry,
                   has_data, last_op, out_log>>

TimedRotate ==
    /\ pc = "rotate"
    /\ IF RotationDue THEN RotateScreen
       ELSE UNCHANGED <<current_screen, shown, last_screen_change, rot_log>>
    /\ pc' = "render"
    /\ UNCHANGED <<clock, now, screens, is_initialized, status_pixel,
                   error_view, wifi_ok>>
    /\ UNCHANGED envVars
    /\ UNCHANGED today
    /\ UNCHANGED dataVars

\* code.py:448-461: animate the current screen, refresh the display, sleep
Render ==
    /\ pc = "render"
    /\ current_screen + 1 \in 1..Len(screens)
    /\ \E d \in SleepSteps :
        /\ clock + d <= MaxClock
        /\ clock' = clock + d
        /\ today' = DateAt(clock + d)
    /\ now' = 0
    /\ pc' = "serial"
    /\ UNCHANGED <<last_screen_change, current_screen, screens,
                   is_initialized, status_pixel, shown, error_view, wifi_ok,
                   rot_log>>
    /\ UNCHANGED <<games, favorite_game, standings, schedule, game_view,
                   standings_view, schedule_view, cache, cache_expiry,
                   has_data, last_data_refresh, last_op, out_log, faults,
                   serial_lines, wifi>>

\* a statement of the loop body raises (an index out of range at
\* code.py:449, or an exception such as MemoryError out of the display,
\* the allocator or input())
Fault ==
    /\ pc = "render"
    /\ pc' = "handler"
    /\ UNCHANGED <<clock, now, last_screen_change, current_screen, screens,
                   is_initialized, status_pixel, shown, error_view, wifi_ok,
                   rot_log>>
    /\ faults < MaxFaults
    /\ faults' = faults + 1
    /\ UNCHANGED <<serial_lines, wifi>>
    /\ UNCHANGED today
    /\ UNCHANGED dataVars

\* code.py:463-473: a line of serial input, if bytes are waiting
SerialInput ==
    /\ pc = "serial"
    /\ \E cmd \in {"none", "r", "s", "d", "q"} :
        /\ cmd # "none" => serial_lines < MaxSerial
        /\ serial_lines' = IF cmd = "none" THEN serial_lines ELSE serial_lines + 1
        /\ pc' = CASE cmd = "r" -> "cmd_r"
                  [] cmd = "s" -> "cmd_s"
                  [] cmd = "q" -> "reloaded"
                  [] OTHER -> "loop"
    /\ UNCHANGED <<faults, wifi>>
    /\ UNCHANGED <<clock, now, last_screen_change, current_screen, screens,
                   is_initialized, status_pixel, shown, error_view, wifi_ok,
                   rot_log>>
    /\ UNCHANGED today
    /\ UNCHANGED dataVars

\* code.py:466-467
ManualRefresh ==
    /\ pc = "cmd_r"
    /\ RefreshData(FALSE, "loop")

\* code.py:468-469
ManualRotate ==
    /\ pc = "cmd_s"
    /\ RotateScreen
    /\ pc' = "loop"
    /\ UNCHANGED <<clock, now, screens, is_initialized, status_pixel,
                   error_view, wifi_ok>>
    /\ UNCHANGED envVars
    /\ UNCHANGED today
    /\ UNCHANGED dataVars

\* Faulty variant: the "not" of code.py:491 dropped, so the process reloads
\* when the connection is up and carries on when it is down.
HandlerReloads ==
    /\ pc = "handler"
    /\ IF error_view # "none"
       THEN error_view' = "Runtime Error" /\ shown' = "error"
       ELSE UNCHANGED <<error_view, shown>>
    /\ \E ok \in BOOLEAN :
        /\ wifi_ok' = ok
        /\ clock + ERROR_SLEEP + (IF ok THEN 0 ELSE RELOAD_SLEEP) <= MaxClock
        /\ clock' = clock + ERROR_SLEEP + (IF ok THEN 0 ELSE RELOAD_SLEEP)
        /\ today' = DateAt(clock + ERROR_SLEEP + (IF ok THEN 0 ELSE RELOAD_SLEEP))
        /\ status_pixel' = IF ok THEN "green" ELSE "red"
        /\ pc' = IF ok THEN "reloaded" ELSE "loop"
    /\ UNCHANGED <<now, last_screen_change, current_screen, screens,
                   is_initialized, rot_log>>
    /\ UNCHANGED envVars
    /\ UNCHANGED dataVars

\* code.py:475-497: the guard of the loop body
Handler ==
    /\ pc = "handler"
    /\ IF error_view # "none"
       THEN error_view' = "Runtime Error" /\ shown' = "error"
       ELSE UNCHANGED <<error_view, shown>>
    /\ \E ok \in BOOLEAN :
        /\ wifi_ok' = ok
        /\ clock + ERROR_SLEEP + (IF ok THEN 0 ELSE RELOAD_SLEEP) <= MaxClock
        /\ clock' = clock + ERROR_SLEEP + (IF ok THEN 0 ELSE RELOAD_SLEEP)
        /\ today' = DateAt(clock + ERROR_SLEEP + (IF ok THEN 0 ELSE RELOAD_SLEEP))
        /\ status_pixel' = IF ok THEN "green" ELSE "red"
        /\ pc' = IF ok THEN "loop" ELSE "reloaded"
    /\ UNCHANGED <<now, last_screen_change, current_screen, screens,
                   is_initialized, rot_log>>
    /\ UNCHANGED envVars
    /\ UNCHANGED dataVars

Next ==
    \/ InitializeOk
    \/ InitializeFails
    \/ Recover
    \/ FailSafe
    \/ IterBegin
    \/ AutoRefresh
    \/ TimedRotate
    \/ Render
    \/ Fault
    \/ SerialInput
    \/ ManualRefresh
    \/ ManualRotate
    \/ Handler

Spec == Init /\ [][Next]_vars

----------------------------------------------------------------------------
(* Properties of the application loop, checked under Spec *)

NoBusyRetry ==
    [][(/\ pc = "loop"
        /\ pc' = "refresh"
        /\ last_op.op = "refresh"
        /\ last_op.auto
        /\ ~last_op.ret)
       => clock >= last_op.at + DATA_REFRESH_INTERVAL]_vars

\* C3: a refresh in which a fetch fails, or which itself fails, leaves
\* games, favorite_game, standings and schedule as they were.
SnapshotKeptOnFailure ==
    [][(/\ pc \in {"refresh", "cmd_r"}
        /\ pc' # pc
        /\ (~last_op'.ret \/ last_op'.failed))
       => <<games', favorite_game', standings', schedule'>>
            = <<games, favorite_game, standings, schedule>>]_vars

\* C6: a refresh whose four client calls return and leave games, standings
\* and schedule non-empty returns True, sets has_data and
\* last_data_refresh, and updates the three data screens.
FullPullUpdatesScreens ==
    [][(/\ pc \in {"refresh", "cmd_r"}
        /\ pc' # pc
        /\ last_op'.stage \notin 1..4
        /\ Truthy(games')
        /\ Truthy(standings')
        /\ Truthy(schedule'))
       => /\ last_op'.ret
          /\ has_data'
          /\ last_data_refresh' = clock'
          /\ game_view' = GameScreenUpdate(games', favorite_game')
          /\ standings_view' # StandingsViewInit
          /\ schedule_view' # ScheduleViewInit]_vars

\* C7 as stated: the current screen changes only when a pull has succeeded
\* and at least ROTATION_SPEED seconds have passed since the last change.
RotationOnlyWhenDue ==
    [][current_screen' # current_screen
       => has_data /\ clock - last_screen_change >= ROTATION_SPEED]_vars

\* C7: the current screen changes only by the loop's timed rotation, which
\* needs a successful pull and ROTATION_SPEED seconds since the last
\* change, or by the serial command 's', which needs neither.
RotationOnlyWhenDueOrCommanded ==
    [][current_screen' # current_screen
       => \/ pc = "cmd_s"
          \/ /\ pc = "rotate"
             /\ has_data
             /\ clock - last_screen_change >= ROTATION_SPEED]_vars

\* a timed rotation has just happened: no serial command was ever read
TimedRotationDone ==
    /\ pc = "render"
    /\ serial_lines = 0
    /\ wifi = NoCall
    /\ has_data
    /\ current_screen = 1
    /\ last_screen_change = clock
    /\ clock >= ROTATION_SPEED

\* C8: an iteration starts a refresh exactly when has_data is unset or at
\* least DATA_REFRESH_INTERVAL seconds have passed since
\* last_data_refresh; if the last refresh succeeded at time t, the loop
\* starts no refresh before t + DATA_REFRESH_INTERVAL.
RefreshExactlyWhenDue ==
    [][/\ (pc = "loop" /\ pc' # pc)
          => ((pc' = "refresh")
                <=> (~has_data
                     \/ clock - last_data_refresh >= DATA_REFRESH_INTERVAL))
       /\ (/\ pc # "refresh"
           /\ pc' = "refresh"
           /\ last_op.op = "refresh"
           /\ last_op.ret)
          => clock >= last_op.at + DATA_REFRESH_INTERVAL]_vars

\* the loop starts a refresh a full interval after a successful one
RefreshStartedWhenDue ==
    /\ pc = "refresh"
    /\ has_data
    /\ last_op.op = "refresh"
    /\ last_op.ret
    /\ clock = last_data_refresh + DATA_REFRESH_INTERVAL

\* C9: a rotation moves current_screen to (current_screen + 1) mod N and
\* shows that screen; the last N rotations showed the N screens in list
\* order, starting anywhere and wrapping from the last to the first.
RoundRobinRotation ==
    [][/\ current_screen' # current_screen
          => /\ current_screen' = (current_screen + 1) % Len(screens)
             /\ shown' = screens[current_screen' + 1]
       /\ (Len(screens') > 0 /\ Len(rot_log') = Len(screens'))
          => \E k \in 0..(Len(screens') - 1) :
                \A i \in 1..Len(screens') :
                    rot_log'[i] = screens'[((k + i) % Len(screens')) + 1]]_vars

\* four rotations have gone once round the list and back to the first screen
RotatedOnceRound ==
    /\ rot_log = <<"game", "standings", "schedule", "splash">>
    /\ current_screen = 0
    /\ shown = "splash"

\* C10: the handler of an exception in the loop body puts "Runtime Error"
\* on the error screen, sleeps at least ERROR_SLEEP seconds, and hands
\* control back to the loop if the connection is up; it reloads only if the
\* connection is down.  The loop is left in no other way than a reload.
ExceptionHandled ==
    [][/\ pc = "render" => pc' \in {"render", "serial", "handler"}
       /\ (pc = "handler" /\ pc' # pc)
          => /\ shown' = "error"
             /\ error_view' = "Runtime Error"
             /\ clock' >= clock + ERROR_SLEEP
             /\ \/ pc' = "loop" /\ wifi_ok'
                \/ pc' = "reloaded" /\ ~wifi_ok'
       /\ (pc \in {"loop", "refresh", "rotate", "render", "serial", "cmd_r",
                   "cmd_s", "handler"})
          => pc' \in {"loop", "refresh", "rotate", "render", "serial",
                      "cmd_r", "cmd_s", "handler", "reloaded"}]_vars

\* the loop iterating again after an exception, the error screen up
LoopResumedAfterException ==
    /\ pc = "loop"
    /\ faults > 0
    /\ wifi_ok
    /\ shown = "error"
    /\ error_view = "Runtime Error"
    /\ clock >= ERROR_SLEEP

\* C11: when initialize() has failed for want of a connection, run() stays
\* in a recovery loop: it restarts only from that loop (on serial input),
\* and every pass of the loop shows the error on the status pixel and
\* tries the connection again.
FailedInitRecovers ==
    [][/\ (pc = "init_failed" /\ ~wifi_ok /\ pc' # pc) => pc' = "failsafe"
       /\ (pc = "failsafe" /\ clock' # clock)
          => /\ status_pixel' \in {"red", "off"}
             /\ last_op'.op = "ensure_wifi"
             /\ last_op'.at >= clock]_vars

----------------------------------------------------------------------------
(* The process from power-up, code.py:500-522: the entry point checks the  *)
(* connection, constructs the application and calls run()                  *)

\* the module has been imported and nothing has run yet
InitBoot ==
    /\ pc = "start"
    /\ clock = 0
    /\ now = 0
    /\ last_data_refresh = 0
    /\ last_screen_change = 0
    /\ current_screen = 0
    /\ screens = <<>>
    /\ is_initialized = FALSE
    /\ has_data = FALSE
    /\ games = List(<<>>)
    /\ favorite_game = Null
    /\ standings = Null
    /\ schedule = Null
    /\ status_pixel = "none"
    /\ shown = "none"
    /\ game_view = GameViewInit
    /\ standings_view = StandingsViewInit
    /\ schedule_view = ScheduleViewInit
    /\ error_view = "none"
    /\ cache = ClearedCache.cache
    /\ cache_expiry = ClearedCache.expiry
    /\ today = Dates[1]
    /\ wifi_ok = FALSE
    /\ last_op = NoOp
    /\ rot_log = <<>>
    /\ out_log = NoLog
    /\ faults = 0
    /\ serial_lines = 0
    /\ wifi = NoCall

\* what no step before run() touches
appVars == <<now, last_data_refresh, last_screen_change, current_screen,
             screens, is_initialized, has_data, games, favorite_game,
             standings, schedule, shown, game_view, standings_view,
             schedule_view, error_view, cache, cache_expiry, rot_log,
             out_log, faults, serial_lines, wifi>>

\* code.py:503: network_check.ensure_wifi_connection() with its default
\* budget of three attempts; its own NeoPixel ends green or red
BootCheck ==
    /\ pc = "start"
    /\ \E ok \in BOOLEAN :
        /\ wifi_ok' = ok
        /\ last_op' = EnsureWifi(ok)
        /\ status_pixel' = IF ok THEN "green" ELSE "red"
        /\ pc' = IF ok THEN "construct" ELSE "entry_failsafe"
    /\ UNCHANGED <<clock, today>>
    /\ UNCHANGED appVars

\* code.py:510-518: one pass of the loop that flashes the status pixel and
\* reloads (the process starts again) once serial bytes are waiting
EntryFailSafe ==
    /\ pc = "entry_failsafe"
    /\ clock + RELOAD_SLEEP <= MaxClock
    /\ clock' = clock + RELOAD_SLEEP
    /\ today' = DateAt(clock + RELOAD_SLEEP)
    /\ status_pixel' = "off"
    /\ \E bytes \in BOOLEAN : pc' = IF bytes THEN "start" ELSE "entry_failsafe"
    /\ UNCHANGED <<wifi_ok, last_op>>
    /\ UNCHANGED appVars

\* code.py:521, app = MLBScoreboard(): __init__ (code.py:89-122) assigns
\* the fields their initial values and then executes
\* "self.status_pixel[0] = (0, 0, 128)" (code.py:122); the assignment that
\* would create self.status_pixel is commented out (code.py:119-121) and
\* the class defines no such attribute, so the statement raises
\* AttributeError.  Nothing catches it: the process ends with a traceback
\* and run() (code.py:522) is never called.
Construct ==
    /\ pc = "construct"
    /\ pc' = "crashed"
    /\ UNCHANGED <<clock, today, wifi_ok, last_op, status_pixel>>
    /\ UNCHANGED appVars

NextBoot ==
    \/ BootCheck
    \/ EntryFailSafe
    \/ Construct

SpecBoot == InitBoot /\ [][NextBoot]_vars

\* C12: once the entry point's connection check has passed, the
\* application is constructed and goes on to initialize(): the process
\* leaves the construction for initialization, on the way to the main loop.
StartReachesReady ==
    [][(pc = "construct" /\ pc' # pc) => pc' = "init"]_vars

----------------------------------------------------------------------------
(* The Stats API client on its own: a caller makes the four requests in   *)
(* any order while time passes, and may clear the cache.                   *)

\* seconds that may pass between two calls
ClientSteps == {150}

\* what the network may answer to a request that reaches it: no response
\* or a body that is not JSON (both tried on the games request, whose path
\* through _make_request the other three share), or a payload
Failures == {NoResponse, Garbage}
GamesBodies ==
    Failures \cup {Text(DatesOf(<<LiveGame, BadGame>>)), Text(NoDates)}
TeamGameBodies == {NoResponse} \cup {Text(DatesOf(<<LiveGame>>))}
StandingsBodies == {NoResponse} \cup {Text(StandingsPayload)}
ScheduleBodies == {NoResponse} \cup {Text(DatesOf(<<UpcomingGame>>))}

ClientOps == {"get_games", "get_team_game", "get_standings", "get_team_schedule"}

\* StatsAPIClient.__init__ (statsapi.py:23-32): both dicts empty
InitClient ==
    /\ pc = "client"
    /\ clock = 0
    /\ now = 0
    /\ last_data_refresh = 0
    /\ last_screen_change = 0
    /\ current_screen = 0
    /\ screens = <<>>
    /\ is_initialized = FALSE
    /\ has_data = FALSE
    /\ games = List(<<>>)
    /\ favorite_game = Null
    /\ standings = Null
    /\ schedule = Null
    /\ status_pixel = "blue"
    /\ shown = "none"
    /\ game_view = GameViewInit
    /\ standings_view = StandingsViewInit
    /\ schedule_view = ScheduleViewInit
    /\ error_view = "none"
    /\ cache = ClearedCache.cache
    /\ cache_expiry = ClearedCache.expiry
    /\ today = Dates[1]
    /\ wifi_ok = TRUE
    /\ last_op = NoOp
    /\ rot_log = <<>>
    /\ out_log = NoLog
    /\ faults = 0
    /\ serial_lines = 0
    /\ wifi = NoCall

loopVars == <<pc, now, last_data_refresh, last_screen_change, current_screen,
              screens, is_initialized, has_data, games, favorite_game,
              standings, schedule, status_pixel, shown, game_view,
              standings_view, schedule_view, error_view, today, wifi_ok,
              rot_log, faults, serial_lines, wifi>>

\* the caller receives r from the call op(date), whose request is url and
\* to which the network would answer body
ClientReturn(op, team, limit, date, url, body, r) ==
    /\ cache' = r.cache
    /\ cache_expiry' = r.expiry
    /\ last_op' = [op |-> op, ret |-> ~IsRaise(r.value), stage |-> 0,
                   fetched |-> r.fetched # {}, failed |-> r.failed # {},
                   at |-> clock, auto |-> FALSE, date |-> date, url |-> url,
                   before |-> IF url \in DOMAIN cache_expiry
                              THEN cache_expiry[url] ELSE 0,
                   data |-> r.data, value |-> r.value, team |-> team,
                   limit |-> limit]
    /\ out_log' =
        [stored |-> IF r.fetched # {} /\ r.failed = {}
                    THEN [u \in DOMAIN out_log.stored \cup {url} |->
                            IF u = url THEN [payload |-> body.json, at |-> clock]
                            ELSE out_log.stored[u]]
                    ELSE out_log.stored,
         result |-> IF op = "get_games"
                    THEN [x \in DOMAIN out_log.result \cup {date} |->
                            IF x = date THEN r.value ELSE out_log.result[x]]
                    ELSE out_log.result]
    /\ UNCHANGED clock
    /\ UNCHANGED loopVars

ClientGetGames ==
    /\ pc = "client"
    /\ \E i \in 1..Len(Dates), body \in GamesBodies :
        \E r \in {get_games([cache |-> cache, expiry |-> cache_expiry],
                            Dates[i], clock, body)} :
            ClientReturn("get_games", "", 0, Dates[i], GamesUrl(Dates[i]), body, r)

ClientGetTeamGame ==
    /\ pc = "client"
    /\ \E body \in TeamGameBodies :
        \E r \in {get_team_game([cache |-> cache, expiry |-> cache_expiry],
                                FAVORITE_TEAM, today, clock, body)} :
            ClientReturn("get_team_game", FAVORITE_TEAM, 0, today,
                         TeamGameUrl(GetTeamId(FAVORITE_TEAM), today), body, r)

ClientGetStandings ==
    /\ pc = "client"
    /\ \E body \in StandingsBodies :
        \E r \in {get_standings([cache |-> cache, expiry |-> cache_expiry],
                                today, clock, body)} :
            ClientReturn("get_standings", "", 0, today, StandingsUrl(today), body, r)

ClientGetTeamSchedule ==
    /\ pc = "client"
    /\ \E body \in ScheduleBodies :
        \E r \in {get_team_schedule([cache |-> cache, expiry |-> cache_expiry],
                                    FAVORITE_TEAM, SCHEDULE_LIMIT, today,
                                    clock, body)} :
            ClientReturn("get_team_schedule", FAVORITE_TEAM, SCHEDULE_LIMIT, today,
                         TeamScheduleUrl(GetTeamId(FAVORITE_TEAM), today), body, r)

\* Faulty variant: only the expiry times are dropped.
ClientClearCacheExpiryOnly ==
    /\ pc = "client"
    /\ cache' = cache
    /\ cache_expiry' = ClearedCache.expiry
    /\ last_op' = [NoOp EXCEPT !.op = "clear_cache", !.at = clock]
    /\ out_log' = [out_log EXCEPT !.stored = EmptyMap]
    /\ UNCHANGED clock
    /\ UNCHANGED loopVars

\* clear_cache, statsapi.py:52-56
ClientClearCache ==
    /\ pc = "client"
    /\ cache' = ClearedCache.cache
    /\ cache_expiry' = ClearedCache.expiry
    /\ last_op' = [NoOp EXCEPT !.op = "clear_cache", !.at = clock]
    /\ out_log' = [out_log EXCEPT !.stored = EmptyMap]
    /\ UNCHANGED clock
    /\ UNCHANGED loopVars

\* time passes between two calls
ClientTick ==
    /\ pc = "client"
    /\ \E d \in ClientSteps : clock + d <= MaxClientClock /\ clock' = clock + d
    /\ UNCHANGED <<cache, cache_expiry, last_op, out_log>>
    /\ UNCHANGED loopVars

NextClient ==
    \/ ClientGetGames
    \/ ClientGetTeamGame
    \/ ClientGetStandings
    \/ ClientGetTeamSchedule
    \/ ClientClearCache
    \/ ClientTick

SpecClient == InitClient /\ [][NextClient]_vars

----------------------------------------------------------------------------
(* Properties of the client's cache, checked under SpecClient *)

\* C4: a client call that finds an entry for its url returns, while the
\* clock is below the entry's expiry, the payload the network last
\* delivered for that url, without asking the network; at or after the
\* expiry it asks the network.
ExpiryHonoured ==
    (last_op.op \in ClientOps /\ last_op.before > 0)
    => IF last_op.at < last_op.before
       THEN /\ ~last_op.fetched
            /\ last_op.url \in DOMAIN out_log.stored
            /\ last_op.data = out_log.stored[last_op.url].payload
       ELSE last_op.fetched

\* a call made at the very second its entry expires went to the network
ExpiredEntryRefetched ==
    /\ last_op.op = "get_games"
    /\ last_op.before > 0
    /\ last_op.at = last_op.before
    /\ last_op.fetched
    /\ ~last_op.failed

\* C5: get_games(date) called less than CACHE_TTL seconds after the
\* network delivered the payload for that date returns what the previous
\* get_games(date) returned, and asks the network nothing.
RepeatedGetGamesIdentical ==
    [][(/\ last_op' # last_op
        /\ last_op'.op = "get_games"
        /\ last_op'.url \in DOMAIN out_log.stored
        /\ clock < out_log.stored[last_op'.url].at + CACHE_TTL
        /\ last_op'.date \in DOMAIN out_log.result)
       => /\ ~last_op'.fetched
          /\ last_op'.value = out_log.result[last_op'.date]]_vars

\* a second get_games, later within the window, served from the cache
SecondGetGamesServed ==
    /\ last_op.op = "get_games"
    /\ ~last_op.fetched
    /\ Truthy(last_op.value)
    /\ last_op.url \in DOMAIN out_log.stored
    /\ last_op.at > out_log.stored[last_op.url].at

----------------------------------------------------------------------------
(* The request methods as functions of the upstream payload: a caller      *)
(* constructs a client, makes one call, and looks at what it got           *)

\* ATL 5, NYM 3, Final, with the linescore upstream keeps for a game that
\* was played
FinalPlayed ==
    Dict([gamePk |-> Num(5), officialDate |-> Str("2024-04-01"),
          status |-> Dict([abstractGameState |-> Str("Final"),
                           detailedState |-> Str("Final")]),
          teams |-> Dict([home |-> Side(Team("ATL", 144), 5),
                          away |-> Side(Team("NYM", 121), 3)]),
          linescore |-> Dict([currentInning |-> Num(9),
                              inningState |-> Str("Top"),
                              outs |-> Num(3), balls |-> Num(1),
                              strikes |-> Num(2),
                              offense |-> Dict([third |-> Dict([id |-> Num(8)])])])])

\* an entry of the right shape whose numbers are out of range
WildGame ==
    Dict([gamePk |-> Num(6), officialDate |-> Str("2024-04-01"),
          status |-> Dict([abstractGameState |-> Str("Live"),
                           detailedState |-> Str("In Progress")]),
          teams |-> Dict([home |-> Side(Team("LAD", 119), -1),
                          away |-> Side(Team("SF", 137), 2)]),
          linescore |-> Dict([currentInning |-> Num(3),
                              inningState |-> Str("Bottom"),
                              outs |-> Num(5), balls |-> Num(4),
                              strikes |-> Num(3)])])

\* an entry whose inning state is a number: parsing it raises
BadInning ==
    Dict([gamePk |-> Num(8),
          teams |-> Dict([home |-> Side(Team("CHC", 112), 1),
                          away |-> Side(Team("STL", 138), 0)]),
          linescore |-> Dict([inningState |-> Num(1)])])

\* the game entries a schedule payload is made of; the last is no object
GameEntries ==
    {FinalGame, LiveGame, FinalPlayed, WildGame, BadGame, BadInning, Num(7)}

\* the sequences over S of length at most n
Seqs(S, n) == UNION {[1..m -> S] : m \in 0..n}

\* the first k elements of gs, and the others
Prefix(gs, k) == [i \in 1..k |-> gs[i]]
Suffix(gs, k) == [i \in 1..(Len(gs) - k) |-> gs[k + i]]

\* a payload whose first date holds the first k games and whose second
\* date holds the others
DatesSplit(gs, k) ==
    Dict([dates |-> List(<<Dict([games |-> List(Prefix(gs, k))]),
                           Dict([games |-> List(Suffix(gs, k))])>>)])

\* a document with the one member key
Keyed(key, j) == Dict([x \in {key} |-> j])

\* documents that are JSON but not of the shape the method expects under
\* key ("dates" or "records")
Shapeless(key) ==
    {Null, Num(5), EmptyDict, List(<<Str(key)>>),
     Keyed(key, Null), Keyed(key, Num(3)), Keyed(key, EmptyDict),
     Keyed(key, List(<<Num(1)>>)),
     Keyed(key, List(<<Dict([games |-> Null, teamRecords |-> Null])>>))}

\* what network.fetch may hand back when it is asked for one of docs
BodiesOf(docs) == {NoResponse, Garbage} \cup {Text(j) : j \in docs}

GamesDocs ==
    {DatesOf(gs) : gs \in Seqs(GameEntries, MaxGames)}
    \cup {DatesSplit(gs, 1) : gs \in Seqs(GameEntries, MaxGames) \ {<<>>}}
    \cup Shapeless("dates")

TeamGameDocs ==
    {DatesSplit(gs, 0) : gs \in Seqs(GameEntries, MaxGames - 1)}
    \cup Shapeless("dates")

\* the i-th game of a team's schedule; the entry is recognised in the
\* output by its away team id
ScheduleGame(i) ==
    Dict([gamePk |-> Num(100 + i), officialDate |-> Str("2024-04-02"),
          status |-> Dict([abstractGameState |-> Str("Preview"),
                           detailedState |-> Str("Scheduled")]),
          teams |-> Dict([home |-> Dict([team |-> Team("NYY", 147)]),
                          away |-> Dict([team |-> Team("OPP", 200 + i)])])])

ScheduleGames(n) == [i \in 1..n |-> ScheduleGame(i)]

\* schedules of up to MaxLimit + 1 games over two dates, a schedule with
\* an entry that cannot be parsed, and documents of another shape
ScheduleDocs ==
    {DatesSplit(ScheduleGames(nk[1]), nk[2]) :
        nk \in {x \in (0..(MaxLimit + 1)) \X (0..(MaxLimit + 1)) : x[2] <= x[1]}}
    \cup {DatesOf(<<UpcomingGame, BadGame>>)}
    \cup Shapeless("dates")

TeamRows ==
    {TeamRecord("BOS", 111, 3, 2), TeamRecord("NYY", 147, 5, 0),
     TeamRecord("TB", 139, 3, 2), TeamRecord("TOR", 141, 1, 4)}

\* a team row whose wins are a string
OddRow == Dict([team |-> Team("BAL", 110), wins |-> Str("3"), losses |-> Num(2)])

Division(name, rows) ==
    Dict([division |-> Dict([nameShort |-> Str(name)]),
          teamRecords |-> List(rows)])

ALWest ==
    Division("AL West", <<TeamRecord("HOU", 117, 2, 3), TeamRecord("SEA", 136, 4, 1)>>)

\* one division with up to MaxRows rows in any order, two divisions, a
\* division with a row that cannot be compared, and documents of another
\* shape
StandingsDocs ==
    {Keyed("records", List(<<Division("AL East", rows)>>)) :
        rows \in Seqs(TeamRows, MaxRows)}
    \cup {Keyed("records", List(<<Division("AL East", rows), ALWest>>)) :
            rows \in Seqs(TeamRows, MaxRows - 1)}
    \cup {Keyed("records", List(<<Division("AL East",
                                    <<OddRow, TeamRecord("NYY", 147, 5, 0)>>)>>))}
    \cup Shapeless("records")

\* team codes of the table (upper or lower case) and codes it does not hold
KnownTeams == {FAVORITE_TEAM, "atl"}
UnknownTeams == {"ZZZ", "NY", ""}

\* StatsAPIClient.__init__ (statsapi.py:17-50) has run
InitParse ==
    /\ pc = "new"
    /\ clock = 0
    /\ now = 0
    /\ last_data_refresh = 0
    /\ last_screen_change = 0
    /\ current_screen = 0
    /\ screens = <<>>
    /\ is_initialized = FALSE
    /\ has_data = FALSE
    /\ games = List(<<>>)
    /\ favorite_game = Null
    /\ standings = Null
    /\ schedule = Null
    /\ status_pixel = "blue"
    /\ shown = "none"
    /\ game_view = GameViewInit
    /\ standings_view = StandingsViewInit
    /\ schedule_view = ScheduleViewInit
    /\ error_view = "none"
    /\ cache = ClearedCache.cache
    /\ cache_expiry = ClearedCache.expiry
    /\ today = Dates[1]
    /\ wifi_ok = TRUE
    /\ last_op = NoOp
    /\ rot_log = <<>>
    /\ out_log = NoLog
    /\ faults = 0
    /\ serial_lines = 0
    /\ wifi = NoCall

\* what a call of the client leaves alone
callerVars == <<clock, now, last_data_refresh, last_screen_change,
                current_screen, screens, is_initialized, has_data, games,
                favorite_game, standings, schedule, status_pixel, shown,
                game_view, standings_view, schedule_view, error_view, today,
                wifi_ok, rot_log, out_log, faults, serial_lines, wifi>>

\* the caller receives r from the call op
ParseReturn(op, team, limit, r) ==
    /\ cache' = r.cache
    /\ cache_expiry' = r.expiry
    /\ last_op' = [NoOp EXCEPT !.op = op, !.ret = ~IsRaise(r.value),
                               !.fetched = r.fetched # {},
                               !.failed = r.failed # {},
                               !.data = r.data, !.value = r.value,
                               !.team = team, !.limit = limit]
    /\ pc' = "called"
    /\ UNCHANGED callerVars

ParseGetGames ==
    /\ pc = "new"
    /\ \E body \in BodiesOf(GamesDocs) :
        \E r \in {get_games([cache |-> cache, expiry |-> cache_expiry],
                            today, clock, body)} :
            ParseReturn("get_games", "", 0, r)

ParseGetTeamGame ==
    /\ pc = "new"
    /\ \E team \in KnownTeams, body \in BodiesOf(TeamGameDocs) :
        \E r \in {get_team_game([cache |-> cache, expiry |-> cache_expiry],
                                team, today, clock, body)} :
            ParseReturn("get_team_game", team, 0, r)

ParseGetStandings ==
    /\ pc = "new"
    /\ \E body \in BodiesOf(StandingsDocs) :
        \E r \in {get_standings([cache |-> cache, expiry |-> cache_expiry],
                                today, clock, body)} :
            ParseReturn("get_standings", "", 0, r)

ParseGetTeamSchedule ==
    /\ pc = "new"
    /\ \E limit \in 0..MaxLimit, body \in BodiesOf(ScheduleDocs) :
        \E r \in {get_team_schedule([cache |-> cache, expiry |-> cache_expiry],
                                    FAVORITE_TEAM, limit, today, clock, body)} :
            ParseReturn("get_team_schedule", FAVORITE_TEAM, limit, r)

\* a call for a team the table does not hold, on a new client or after
\* another call has filled the cache
UnknownTeamGame ==
    /\ pc \in {"new", "called"}
    /\ \E team \in UnknownTeams :
        \E r \in {get_team_game([cache |-> cache, expiry |-> cache_expiry],
                                team, today, clock,
                                Text(DatesOf(<<LiveGame>>)))} :
            ParseReturn("get_team_game", team, 0, r)

UnknownTeamSchedule ==
    /\ pc \in {"new", "called"}
    /\ \E team \in UnknownTeams, limit \in 0..MaxLimit :
        \E r \in {get_team_schedule([cache |-> cache, expiry |-> cache_expiry],
                                    team, limit, today, clock,
                                    Text(DatesOf(<<UpcomingGame>>)))} :
            ParseReturn("get_team_schedule", team, limit, r)

\* the caller drops the client and constructs another
NewClient ==
    /\ pc = "called"
    /\ cache' = ClearedCache.cache
    /\ cache_expiry' = ClearedCache.expiry
    /\ last_op' = NoOp
    /\ pc' = "new"
    /\ UNCHANGED callerVars

NextParse ==
    \/ ParseGetGames
    \/ ParseGetTeamGame
    \/ ParseGetStandings
    \/ ParseGetTeamSchedule
    \/ UnknownTeamGame
    \/ UnknownTeamSchedule
    \/ NewClient

SpecParse == InitParse /\ [][NextParse]_vars

----------------------------------------------------------------------------
(* Properties of the request methods, checked under SpecParse *)

\* a schedule document of the expected shape: an object whose "dates" is
\* a list of objects, each with a list of games if it has games at all
ValidSchedule(doc) ==
    /\ IsDict(doc)
    /\ "dates" \in DOMAIN doc.v
    /\ IsList(doc.v.dates)
    /\ \A i \in 1..Len(doc.v.dates.v) :
        /\ IsDict(doc.v.dates.v[i])
        /\ "games" \in DOMAIN doc.v.dates.v[i].v => IsList(doc.v.dates.v[i].v.games)

RECURSIVE EntriesOf(_)
\* the game entries of the dates ds, in document order
EntriesOf(ds) ==
    IF Len(ds) = 0 THEN <<>>
    ELSE Get(Head(ds), "games", List(<<>>)).v \o EntriesOf(Tail(ds))

\* the member key of the object j, if present, is of one of the kinds
Optional(j, key, kinds) == key \in DOMAIN j.v => j.v[key].k \in kinds

WellFormedSide(teams, side) ==
    /\ Optional(teams, side, {"dict"})
    /\ side \in DOMAIN teams.v
        => /\ Optional(teams.v[side], "team", {"dict"})
           /\ Optional(teams.v[side], "probablePitcher", {"dict"})

\* a game entry _parse_game_data can read: an object whose status, teams,
\* sides, team, pitcher, linescore and series status are objects where
\* present, whose inning state is a string and whose offense is a container
WellFormedEntry(e) ==
    /\ IsDict(e)
    /\ \A key \in {"status", "teams", "linescore", "seriesStatus"} :
        Optional(e, key, {"dict"})
    /\ "teams" \in DOMAIN e.v
        => WellFormedSide(e.v.teams, "home") /\ WellFormedSide(e.v.teams, "away")
    /\ "linescore" \in DOMAIN e.v
        => /\ Optional(e.v.linescore, "inningState", {"str"})
           /\ Optional(e.v.linescore, "offense", {"dict", "list", "str"})

\* the well-formed entries of the document the last call received
GoodEntries == SelectSeq(EntriesOf(last_op.data.v.dates.v), WellFormedEntry)

\* C13: for a schedule document of the expected shape get_games returns
\* one record per well-formed game entry, in document order, and nothing
\* for an entry that is not well-formed.
SkipOneSemantics ==
    (last_op.op = "get_games" /\ ValidSchedule(last_op.data))
    => /\ last_op.ret
       /\ IsList(last_op.value)
       /\ Len(last_op.value.v) = Len(GoodEntries)
       /\ \A i \in 1..Len(GoodEntries) :
            /\ IsDict(last_op.value.v[i])
            /\ last_op.value.v[i].v.game_id = Get(GoodEntries[i], "gamePk", Null)

\* a malformed entry between two well-formed ones was left out
MalformedEntrySkipped ==
    /\ last_op.op = "get_games"
    /\ last_op.data = DatesOf(<<FinalGame, BadGame, LiveGame>>)
    /\ IsList(last_op.value)
    /\ Len(last_op.value.v) = 2
    /\ last_op.value.v[1].v.game_id = Num(1)
    /\ last_op.value.v[2].v.game_id = Num(2)

\* C14: get_games returns to its caller whatever the network hands back,
\* and returns the empty list when the request failed or the document is
\* not of the expected shape.
GetGamesNeverRaises ==
    last_op.op = "get_games"
    => /\ last_op.ret
       /\ (last_op.failed \/ ~ValidSchedule(last_op.data))
            => last_op.value = List(<<>>)

\* C15: get_standings and get_team_schedule return to their caller
\* whatever the network hands back.
StandingsScheduleNeverRaise ==
    last_op.op \in {"get_standings", "get_team_schedule"} => last_op.ret

\* C16: a call of get_team_game or get_team_schedule for a team code the
\* table does not hold returns None to its caller, asks the network for
\* nothing and leaves the cache and its expiry times as they were.
UnknownTeamAbsent ==
    [][(/\ pc' = "called"
        /\ last_op'.op \in {"get_team_game", "get_team_schedule"}
        /\ last_op'.team \in UnknownTeams)
       => /\ cache' = cache
          /\ cache_expiry' = cache_expiry
          /\ ~last_op'.fetched
          /\ last_op'.ret
          /\ last_op'.value = Null]_vars

\* get_team_schedule was called for an unknown team on a client whose
\* cache holds a response
UnknownTeamAfterFetch ==
    /\ pc = "called"
    /\ last_op.op = "get_team_schedule"
    /\ last_op.team = "ZZZ"
    /\ last_op.value = Null
    /\ cache # ClearedCache.cache

Min(a, b) == IF a <= b THEN a ELSE b

\* the upstream games of the document the last call received
Upstream == EntriesOf(last_op.data.v.dates.v)

\* C17: for a known team and a schedule document whose first
\* min(limit, number of games) entries are well-formed, get_team_schedule
\* returns exactly these entries, in upstream order.
ScheduleLimited ==
    (/\ last_op.op = "get_team_schedule"
     /\ last_op.team \in KnownTeams
     /\ ValidSchedule(last_op.data)
     /\ \A i \in 1..Min(last_op.limit, Len(Upstream)) : WellFormedEntry(Upstream[i]))
    => /\ last_op.ret
       /\ IsList(last_op.value)
       /\ Len(last_op.value.v) = Min(last_op.limit, Len(Upstream))
       /\ \A i \in 1..Len(last_op.value.v) :
            last_op.value.v[i].v.away_team_id
                = GetPath(Upstream[i], <<"teams", "away", "team", "id">>, Num(0))

\* four games over two dates were cut to the limit of two
ScheduleCutToLimit ==
    /\ last_op.op = "get_team_schedule"
    /\ last_op.limit = 2
    /\ last_op.data = DatesSplit(ScheduleGames(4), 1)
    /\ IsList(last_op.value)
    /\ Len(last_op.value.v) = 2

\* a standings document of the expected shape: "records" is a list of
\* divisions with a name and a list of team rows with numeric wins
ValidStandings(doc) ==
    /\ IsDict(doc)
    /\ "records" \in DOMAIN doc.v
    /\ IsList(doc.v.records)
    /\ \A i \in 1..Len(doc.v.records.v) :
        LET rec == doc.v.records.v[i]
        IN  /\ IsDict(rec)
            /\ DOMAIN rec.v = {"division", "teamRecords"}
            /\ IsDict(rec.v.division)
            /\ "nameShort" \in DOMAIN rec.v.division.v
            /\ rec.v.division.v.nameShort.k = "str"
            /\ IsList(rec.v.teamRecords)
            /\ \A j \in 1..Len(rec.v.teamRecords.v) :
                /\ IsDict(rec.v.teamRecords.v[j])
                /\ {"team", "wins", "losses"} \subseteq DOMAIN rec.v.teamRecords.v[j].v
                /\ IsDict(rec.v.teamRecords.v[j].v.team)
                /\ "abbreviation" \in DOMAIN rec.v.teamRecords.v[j].v.team.v
                /\ rec.v.teamRecords.v[j].v.wins.k = "num"

\* what identifies a team row upstream and in the returned table
RowIn(team_record) ==
    <<team_record.v.team.v.abbreviation, team_record.v.wins, team_record.v.losses>>
RowOut(team_data) == <<team_data.v.name, team_data.v.wins, team_data.v.losses>>

\* the sequences a and b hold the same rows the same number of times
SameRows(a, b) ==
    /\ Len(a) = Len(b)
    /\ \A j \in 1..Len(a) :
        Cardinality({k \in 1..Len(b) : RowOut(b[k]) = RowIn(a[j])})
            = Cardinality({k \in 1..Len(a) : RowIn(a[k]) = RowIn(a[j])})

\* C18: for a standings document of the expected shape, each division of
\* the table get_standings returns holds exactly that division's input
\* rows, with wins non-increasing from first to last.
StandingsSortedByWins ==
    (last_op.op = "get_standings" /\ ValidStandings(last_op.data))
    => /\ last_op.ret
       /\ IsDict(last_op.value)
       /\ \A i \in 1..Len(last_op.data.v.records.v) :
            LET rec == last_op.data.v.records.v[i]
                name == rec.v.division.v.nameShort.v
            IN  /\ name \in DOMAIN last_op.value.v
                /\ IsList(last_op.value.v[name])
                /\ SameRows(rec.v.teamRecords.v, last_op.value.v[name].v)
                /\ \A j \in 1..(Len(last_op.value.v[name].v) - 1) :
                    last_op.value.v[name].v[j].v.wins.v
                        >= last_op.value.v[name].v[j + 1].v.wins.v

\* rows received in ascending order of wins were returned in descending
\* order
StandingsReordered ==
    /\ last_op.op = "get_standings"
    /\ last_op.data = Keyed("records", List(<<Division("AL East",
            <<TeamRecord("TOR", 141, 1, 4), TeamRecord("BOS", 111, 3, 2),
              TeamRecord("NYY", 147, 5, 0)>>)>>))
    /\ IsDict(last_op.value)
    /\ last_op.value.v["AL East"].v[1].v.name = Str("NYY")
    /\ last_op.value.v["AL East"].v[3].v.name = Str("TOR")

\* the record g carries the team codes, scores and status of the entry e
Copied(e, g) ==
    /\ g.home_team = e.v.teams.v.home.v.team.v.abbreviation
    /\ g.away_team = e.v.teams.v.away.v.team.v.abbreviation
    /\ g.home_score = e.v.teams.v.home.v.score
    /\ g.away_score = e.v.teams.v.away.v.score
    /\ g.status = e.v.status.v.abstractGameState

\* every live-state field of the record g is at its default
LiveDefaults(g) ==
    /\ g.inning = Num(0)
    /\ g.is_top = Bool(FALSE)
    /\ g.outs = Num(0)
    /\ g.balls = Num(0)
    /\ g.strikes = Num(0)
    /\ g.on_first = Bool(FALSE)
    /\ g.on_second = Bool(FALSE)
    /\ g.on_third = Bool(FALSE)

\* the entry names both teams, both scores and its status
FullEntry(e) ==
    /\ {"teams", "status"} \subseteq DOMAIN e.v
    /\ {"home", "away"} \subseteq DOMAIN e.v.teams.v
    /\ \A side \in {"home", "away"} :
        /\ {"team", "score"} \subseteq DOMAIN e.v.teams.v[side].v
        /\ "abbreviation" \in DOMAIN e.v.teams.v[side].v.team.v
    /\ "abstractGameState" \in DOMAIN e.v.status.v

\* C19 as stated: get_games copies team codes, scores and status of each
\* well-formed entry unchanged, and the record of a game whose status is
\* Final has every live-state field at its default.
FinalGameLiveDefaults ==
    (last_op.op = "get_games" /\ ValidSchedule(last_op.data))
    => /\ IsList(last_op.value)
       /\ Len(last_op.value.v) = Len(GoodEntries)
       /\ \A i \in 1..Len(GoodEntries) :
            FullEntry(GoodEntries[i])
            => /\ Copied(GoodEntries[i], last_op.value.v[i].v)
               /\ last_op.value.v[i].v.status = Str("Final")
                    => LiveDefaults(last_op.value.v[i].v)

\* C19, amended: get_games copies team codes, scores and status of each
\* well-formed entry unchanged, and the record of an entry that carries
\* no linescore has every live-state field at its default.
NoLinescoreLiveDefaults ==
    (last_op.op = "get_games" /\ ValidSchedule(last_op.data))
    => /\ IsList(last_op.value)
       /\ Len(last_op.value.v) = Len(GoodEntries)
       /\ \A i \in 1..Len(GoodEntries) :
            FullEntry(GoodEntries[i])
            => /\ Copied(GoodEntries[i], last_op.value.v[i].v)
               /\ "linescore" \notin DOMAIN GoodEntries[i].v
                    => LiveDefaults(last_op.value.v[i].v)

\* the scenario: one final game, ATL 5 and NYM 3, without a linescore
FinalGameParsed ==
    /\ last_op.op = "get_games"
    /\ last_op.data = DatesOf(<<FinalGame>>)
    /\ IsList(last_op.value)
    /\ Len(last_op.value.v) = 1
    /\ last_op.value.v[1].v.home_team = Str("ATL")
    /\ last_op.value.v[1].v.away_team = Str("NYM")
    /\ last_op.value.v[1].v.home_score = Num(5)
    /\ last_op.value.v[1].v.away_score = Num(3)
    /\ LiveDefaults(last_op.value.v[1].v)

\* the numbers of the record g are in range
InRange(g) ==
    /\ g.home_score.k = "num" /\ g.home_score.v >= 0
    /\ g.away_score.k = "num" /\ g.away_score.v >= 0
    /\ g.outs.k = "num" /\ g.outs.v \in 0..3
    /\ g.balls.k = "num" /\ g.balls.v \in 0..3
    /\ g.strikes.k = "num" /\ g.strikes.v \in 0..2

\* C20: every record get_games or get_team_game returns has scores of
\* at least 0, outs and balls in 0..3 and strikes in 0..2.
RecordsInRange ==
    /\ (last_op.op = "get_games" /\ IsList(last_op.value))
        => \A i \in 1..Len(last_op.value.v) : InRange(last_op.value.v[i].v)
    /\ (last_op.op = "get_team_game" /\ IsDict(last_op.value))
        => InRange(last_op.value.v)

----------------------------------------------------------------------------
(* Further properties of the application loop, checked under Spec *)

\* C22: the display changes only by a round-robin rotation or by an error
\* screen put over the current screen, and the error screen, once shown
\* by a failed refresh, stays on the display until a refresh succeeds: the
\* timed rotation does not replace it (the serial command 's' and the
\* error screen of the loop's exception handler are left aside).
ErrorScreenUntilResolved ==
    [][/\ (shown' # shown /\ is_initialized)
          => \/ shown' = "error"
             \/ /\ pc \in {"rotate", "cmd_s"}
                /\ shown' = screens[NextScreen(current_screen, Len(screens)) + 1]
       /\ (/\ shown = "error" /\ error_view = "Data Error"
           /\ shown' # "error" /\ pc # "cmd_s")
          => /\ pc \in {"refresh", "cmd_r"}
             /\ last_op'.op = "refresh"
             /\ last_op'.ret]_vars

\* C23: refresh_data leaves last_screen_change and current_screen as they
\* are, and rotate_screen leaves last_data_refresh, has_data and the
\* snapshot as they are.
TimersIndependent ==
    [][/\ pc \in {"refresh", "cmd_r"}
          => /\ last_screen_change' = last_screen_change
             /\ current_screen' = current_screen
       /\ pc \in {"rotate", "cmd_s"}
          => /\ last_data_refresh' = last_data_refresh
             /\ has_data' = has_data
             /\ games' = games
             /\ favorite_game' = favorite_game
             /\ standings' = standings
             /\ schedule' = schedule]_vars

\* a refresh has set its timer and a later rotation has set the other
RefreshedThenRotated ==
    /\ pc = "render"
    /\ has_data
    /\ last_op.op = "refresh"
    /\ last_op.ret
    /\ current_screen = 1
    /\ last_data_refresh > 0
    /\ last_screen_change > last_data_refresh

----------------------------------------------------------------------------
(* Further properties of the client's cache, checked under SpecClient *)

\* the step is a call of one of the four request methods
ClientCalled == last_op' # last_op /\ last_op'.op \in ClientOps

\* C24: a request that fetched its payload at the time clock leaves that
\* payload under the request's key, with the expiry clock + CACHE_TTL,
\* whatever the key held before.
FetchStoresWithTTL ==
    [][(ClientCalled /\ last_op'.fetched /\ ~last_op'.failed)
       => /\ last_op'.url \in DOMAIN cache'
          /\ last_op'.url \in DOMAIN out_log'.stored
          /\ out_log'.stored[last_op'.url].at = clock
          /\ cache'[last_op'.url] = out_log'.stored[last_op'.url].payload
          /\ cache_expiry'[last_op'.url] = clock + CACHE_TTL]_vars

\* an expired entry was replaced by another payload
ExpiredEntryReplaced ==
    /\ last_op.op = "get_games"
    /\ last_op.fetched
    /\ ~last_op.failed
    /\ last_op.before = CACHE_TTL
    /\ last_op.at >= last_op.before
    /\ cache[last_op.url] = NoDates
    /\ cache_expiry[last_op.url] = last_op.at + CACHE_TTL

\* C25: a new client and a client whose cache was cleared hold no payload
\* and no expiry, and a request whose key the cache does not hold (so the
\* first request for any key after either) asks the network.
ClearedCacheMisses ==
    [][/\ last_op.op \in {"none", "clear_cache"}
          => DOMAIN cache = {} /\ DOMAIN cache_expiry = {}
       /\ (ClientCalled /\ last_op'.url \notin DOMAIN cache)
          => last_op'.fetched]_vars

\* clear_cache was called on a cache that get_games had filled, and the
\* next request was a miss
MissAfterClear ==
    /\ last_op.op = "get_team_game"
    /\ last_op.fetched
    /\ last_op.before = 0
    /\ DOMAIN cache = {last_op.url}
    /\ last_op.date \in DOMAIN out_log.result
    /\ Truthy(out_log.result[last_op.date])

\* the value of the query parameter key in url, "" if it has none
ParamOf(url, key) ==
    IF \E i \in 1..Len(url[3]) : url[3][i][1] = key
    THEN url[3][CHOOSE i \in 1..Len(url[3]) : url[3][i][1] = key][2]
    ELSE ""

\* C27: a call served from the cache returns the payload stored under its
\* own key, and the key holds the endpoint, the date and the team of the
\* call: the key of get_games(date) has that date and no team, so it is
\* the key of no get_team_game, no get_team_schedule and no get_games of
\* another date.
CacheKeyedByRequest ==
    (last_op.op \in ClientOps /\ ~last_op.fetched)
    => /\ last_op.url \in DOMAIN cache
       /\ last_op.data = cache[last_op.url]
       /\ last_op.url[2] = (IF last_op.op = "get_standings" THEN STANDINGS
                            ELSE SCHEDULE)
       /\ ParamOf(last_op.url, "date")
            = (IF last_op.op \in {"get_games", "get_team_game"}
               THEN last_op.date ELSE "")
       /\ ParamOf(last_op.url, "startDate")
            = (IF last_op.op = "get_team_schedule" THEN last_op.date ELSE "")
       /\ ParamOf(last_op.url, "teamId")
            = (IF last_op.op \in {"get_team_game", "get_team_schedule"}
               THEN "147" ELSE "")

\* get_team_game was served its own payload from a cache that holds
\* another payload for get_games of the same date
TeamGameServedOwnEntry ==
    /\ last_op.op = "get_team_game"
    /\ ~last_op.fetched
    /\ last_op.data = DatesOf(<<LiveGame>>)
    /\ GamesUrl(last_op.date) \in DOMAIN cache
    /\ cache[GamesUrl(last_op.date)] = DatesOf(<<LiveGame, BadGame>>)

\* C28: a request that fails leaves the payloads and the expiry times as
\* they were, and a request leaves the entries of every key but its own
\* as they were.
FailedRequestKeepsCache ==
    [][ClientCalled
       => /\ last_op'.failed => (cache' = cache /\ cache_expiry' = cache_expiry)
          /\ \A u \in DOMAIN cache \ {last_op'.url} :
                /\ u \in DOMAIN cache'
                /\ cache'[u] = cache[u]
                /\ cache_expiry'[u] = cache_expiry[u]]_vars

\* a request failed whose key held an expired entry, beside another entry
FailedOnExpiredEntry ==
    /\ last_op.op = "get_games"
    /\ last_op.failed
    /\ last_op.before > 0
    /\ last_op.url \in DOMAIN cache
    /\ cache_expiry[last_op.url] = last_op.before
    /\ Cardinality(DOMAIN cache) >= 2

----------------------------------------------------------------------------
(* The snapshot and the screen index, checked under Spec *)

\* C26: a refresh in which one of the four client calls raises, so that
\* refresh_data returns False part-way, leaves games, favorite_game,
\* standings and schedule as they were: the four fields always come from
\* one refresh.
SnapshotWholesale ==
    [][(/\ pc \in {"refresh", "cmd_r"}
        /\ pc' # pc
        /\ last_op'.stage \in 1..4)
       => /\ ~last_op'.ret
          /\ games' = games
          /\ favorite_game' = favorite_game
          /\ standings' = standings
          /\ schedule' = schedule]_vars

\* C29: once initialize has returned True, current_screen is an index of
\* screens in every state, whatever rotations, refreshes and errors have
\* happened.
ScreenIndexInRange ==
    is_initialized
    => /\ Len(screens) > 0
       /\ current_screen \in 0..(Len(screens) - 1)

\* the index is back at 0 after a full round in which a refresh failed
WrappedAfterFailedRefresh ==
    /\ is_initialized
    /\ pc = "render"
    /\ current_screen = 0
    /\ Len(rot_log) = Len(screens)
    /\ last_op.op = "refresh"
    /\ ~last_op.ret

----------------------------------------------------------------------------
(* ensure_wifi_connection, network_check.py:26-114, with
   ESPWiFiManager.connect, esp_wifi.py:65-119, as its own specification *)

\* what secrets.get can return for a credential
Credentials == {"None", "", "HomeNet"}

\* Python's `not v` for a credential (network_check.py:44, esp_wifi.py:83)
Missing(v) == v \in {"None", ""}

\* time.sleep(2) of network_check.py:83, 103 and esp_wifi.py:116
RETRY_SLEEP == 2

\* for attempt in range(max_attempts) has another iteration
\* (network_check.py:78, esp_wifi.py:91)
MoreAttemptsOneOver(f) == f.attempt <= f.max_attempts
MoreAttempts(f) == f.attempt < f.max_attempts

\* a write to the pixel made at network_check.py:35, if there is one
SetPixel(f, colour) == IF f.pixel THEN colour ELSE status_pixel

\* the module at rest before its first call: nothing of the application
\* has been constructed
InitWifi ==
    /\ pc = "wifi_idle"
    /\ clock = 0
    /\ now = 0
    /\ last_data_refresh = 0
    /\ last_screen_change = 0
    /\ current_screen = 0
    /\ screens = <<>>
    /\ is_initialized = FALSE
    /\ has_data = FALSE
    /\ games = List(<<>>)
    /\ favorite_game = Null
    /\ standings = Null
    /\ schedule = Null
    /\ status_pixel = "off"
    /\ shown = "none"
    /\ game_view = GameViewInit
    /\ standings_view = StandingsViewInit
    /\ schedule_view = ScheduleViewInit
    /\ error_view = "none"
    /\ cache = ClearedCache.cache
    /\ cache_expiry = ClearedCache.expiry
    /\ today = Dates[1]
    /\ wifi_ok = FALSE
    /\ last_op = NoOp
    /\ rot_log = <<>>
    /\ out_log = NoLog
    /\ faults = 0
    /\ serial_lines = 0
    /\ wifi = NoCall

\* what ensure_wifi_connection leaves alone
wifiVars == <<now, last_data_refresh, last_screen_change, current_screen,
              screens, is_initialized, has_data, games, favorite_game,
              standings, schedule, shown, game_view, standings_view,
              schedule_view, error_view, cache, cache_expiry, today, last_op,
              rot_log, out_log, faults, serial_lines>>

\* the call up to the first attempt (network_check.py:31-57 and, on the
\* ESP32 path, esp_wifi.py:76-88): the pixel is made and set blue, the
\* credentials are read; missing credentials return False with no attempt,
\* and so does a manager without its ESP32 (esp_wifi.py:76-78,
\* network_check.py:68-72)
EnsureWifiConnection ==
    /\ pc \in {"wifi_idle", "wifi_returned"}
    /\ \E n \in 0..MaxAttempts, ssid \in Credentials, password \in Credentials,
          esp_path \in BOOLEAN, esp \in BOOLEAN, pixel \in BOOLEAN :
        /\ esp => esp_path
        /\ clock + n * RETRY_SLEEP <= MaxClock
        /\ wifi' = [max_attempts |-> n, ssid |-> ssid, password |-> password,
                    has_esp_wifi |-> esp_path, esp |-> esp, pixel |-> pixel,
                    attempt |-> 0, connected |-> FALSE]
        /\ IF Missing(ssid) \/ Missing(password) \/ (esp_path /\ ~esp)
           THEN /\ status_pixel' = SetPixel(wifi', "red")
                /\ wifi_ok' = FALSE
                /\ pc' = "wifi_returned"
           ELSE /\ status_pixel' = SetPixel(wifi', "yellow")
                /\ wifi_ok' = wifi_ok
                /\ pc' = "wifi_attempt"
    /\ UNCHANGED clock
    /\ UNCHANGED wifiVars

\* one iteration of the attempt loop. Native radio (network_check.py:79-103):
\* wifi.radio.connect, two seconds of sleep, then wifi.radio.connected is
\* read; a connect that raises sleeps two seconds in the handler. ESP32
\* (esp_wifi.py:92-116): esp.connect_AP, then esp.is_connected is read; a
\* connect_AP that raises turns the pixel red and sleeps two seconds. A
\* connected radio returns True at once (network_check.py:84-92, 59-67)
ConnectAttempt ==
    /\ pc = "wifi_attempt"
    /\ MoreAttempts(wifi)
    /\ \E outcome \in {"connected", "refused", "raised"} :
        /\ wifi' = [wifi EXCEPT !.attempt = @ + 1,
                                !.connected = (outcome = "connected")]
        /\ clock' = IF wifi.has_esp_wifi /\ outcome # "raised"
                    THEN clock
                    ELSE clock + RETRY_SLEEP
        /\ status_pixel' =
              CASE outcome = "connected" -> SetPixel(wifi, "green")
                [] outcome = "raised" /\ wifi.has_esp_wifi -> SetPixel(wifi, "red")
                [] OTHER -> status_pixel
        /\ wifi_ok' = IF outcome = "connected" THEN TRUE ELSE wifi_ok
        /\ pc' = IF outcome = "connected" THEN "wifi_returned" ELSE "wifi_attempt"
    /\ UNCHANGED wifiVars

\* the loop has used its budget (network_check.py:105-108; esp_wifi.py:118-119
\* with network_check.py:68-72): red pixel, False
ConnectionFailed ==
    /\ pc = "wifi_attempt"
    /\ ~MoreAttempts(wifi)
    /\ status_pixel' = SetPixel(wifi, "red")
    /\ wifi_ok' = FALSE
    /\ pc' = "wifi_returned"
    /\ UNCHANGED <<wifi, clock>>
    /\ UNCHANGED wifiVars

NextWifi ==
    \/ EnsureWifiConnection
    \/ ConnectAttempt
    \/ ConnectionFailed

\* the function is straight-line code around blocking driver calls that
\* return or raise, so a call that has started keeps taking its steps
SpecWifi ==
    /\ InitWifi
    /\ [][NextWifi]_vars
    /\ WF_vars(ConnectAttempt \/ ConnectionFailed)

\* C30: a call of ensure_wifi_connection(max_attempts=n) returns, having
\* started at most n connection attempts; an attempt that leaves the radio
\* connected returns True at once and True is returned in no other way, n
\* failed attempts return False, and missing credentials return False with
\* no attempt made
BoundedWifiAttempts ==
    /\ [](/\ wifi.attempt <= wifi.max_attempts
          /\ (pc = "wifi_returned") =>
                /\ wifi_ok <=> (wifi.attempt >= 1 /\ wifi.connected)
                /\ ((Missing(wifi.ssid) \/ Missing(wifi.password))
                       => (~wifi_ok /\ wifi.attempt = 0)))
    /\ [][/\ (pc = "wifi_attempt" /\ wifi'.attempt # wifi.attempt)
                => /\ wifi'.attempt = wifi.attempt + 1
                   /\ wifi'.connected => (pc' = "wifi_returned" /\ wifi_ok')
                   /\ (~wifi'.connected) => (pc' = "wifi_attempt")
          /\ (pc = "wifi_attempt" /\ pc' = "wifi_returned" /\ ~wifi_ok')
                => (wifi' = wifi /\ wifi.attempt = wifi.max_attempts)]_vars
    /\ (pc = "wifi_attempt") ~> (pc = "wifi_returned")

\* the last of three attempts connected
ConnectedOnLastAttempt ==
    /\ pc = "wifi_returned"
    /\ wifi_ok
    /\ wifi.max_attempts = MaxAttempts
    /\ wifi.attempt = MaxAttempts
    /\ wifi.connected

====
